---- MODULE Spec2Model ----
(***************************************************************************)
(* MicroSwap: VMManager (page table, LRU eviction, swap file), its         *)
(* small-block heap, and VMPtr handles, modelled from src/containers.h.    *)
(*                                                                         *)
(* Memory is modelled at the granularity of HEAP_ALIGN-byte words; each    *)
(* word is a pair of 32-bit halves <<lo, hi>>, so that headers and user    *)
(* data share the same bytes exactly as in the page buffers.               *)
(*   HeapHeader  (16 bytes): word 0 = <<magic, version>>,                  *)
(*                           word 1 = <<first_free, total_free>>           *)
(*   BlockHeader (12 bytes, padded to BH_SIZE = 16):                       *)
(*                           word 0 = <<size, next_free>>,                 *)
(*                           word 1 = <<flags, (padding)>>                 *)
(* The page size and page count are scaled down from 4096 x 16.            *)
(***************************************************************************)
EXTENDS Integers, Sequences, FiniteSets, TLC

\* ------------------------------------------------------------ constants
VM_PAGE_SIZE == 64
VM_PAGE_COUNT == 3
HEAP_MAGIC == 1447905360
HEAP_VERSION == 1
HEAP_ALIGN == 8
HH_SIZE == 16
BH_SIZE == 16
\* std::numeric_limits<uint64_t>::max(), scaled to the checker's integers
U64_MAX == 2147483647

\* ------------------------------------------------------------ bounds
\* number of page-sized buffers malloc can hand out at the same time
MaxRam == 2
\* operations are offered while access_tick is below this
MaxTick == 4
\* heap_alloc is offered while fewer than this many blocks are live
MaxLive == 2
\* handles are moved by at most this many elements at a time
MaxStep == 8
MaxVTick == 17
MaxElems == 5
MaxOther == 3

VARIABLES
    pages,        \* VMPage pages[VM_PAGE_COUNT] (ram_addr: TRUE = non-null)
    ram,          \* content of each page's RAM buffer
    store,        \* swap file: swap offset -> page-sized region
    access_tick,  \* uint64_t access_tick
    started,      \* bool started
    store_ok,     \* environment: the swap file's read/write calls succeed
    junk,         \* environment: what an uninitialised malloc'd buffer holds
    malloc_fails, \* environment: how many of the next malloc(page_size) calls fail
                  \* although a buffer is left (memory taken by the rest of the program)
    hnd,          \* VMPtr handles: [page_idx, offset]
    live,         \* ghost: heap blocks handed out and not yet freed
    wrote,        \* ghost: content last put into each page through its RAM buffer
    vec,          \* VMVector<T> objects: their data members
    refs,         \* ghost: the reference sequence of each vector
    last          \* ghost: the last operation, its arguments, result and event log

vars == <<pages, ram, store, access_tick, started, store_ok, junk, malloc_fails, hnd, live,
          wrote, vec, refs, last>>

\* ------------------------------------------------------------ memory
PageIdx == 0 .. (VM_PAGE_COUNT - 1)
NWords == VM_PAGE_SIZE \div HEAP_ALIGN
Words == 0 .. (NWords - 1)
W(off) == off \div HEAP_ALIGN
ZeroWord == <<0, 0>>
ZeroPage == [w \in Words |-> ZeroWord]
\* what an uninitialised malloc'd buffer may hold
JunkPage == [w \in Words |-> <<HEAP_MAGIC - 1, HEAP_MAGIC - 1>>]
Vals == {1, 2}
Handles == {1, 2}
NullHandle == [page_idx |-> -1, offset |-> 0]

Ret(m, r) == [m |-> m, ret |-> r]
Log(m, e, i, s) == [m EXCEPT !.log = Append(@, [ev |-> e, idx |-> i, snap |-> s])]

valid_index(idx) == idx >= 0 /\ idx < VM_PAGE_COUNT

\* fs::File::write(page.ram_addr, page_size) after seek(off)
store_write(m, off, content) ==
    IF m.store_ok
    THEN Log([m EXCEPT !.store[off] = content], "store_write", off, <<>>)
    ELSE Log(m, "store_write_failed", off, <<>>)

\* fs::File::read(page.ram_addr, page_size) after seek(off), into buffer idx
store_read(m, off, idx) ==
    IF m.store_ok
    THEN Log([m EXCEPT !.ram[idx] = m.store[off]], "store_read", off, <<>>)
    ELSE Log(m, "store_read_failed", off, <<>>)

\* malloc(page_size) succeeds while fewer than MaxRam buffers are held
malloc_ok(m) ==
    m.malloc_fails = 0 /\ Cardinality({i \in PageIdx : m.pages[i].ram_addr}) < MaxRam
\* the manager after a malloc(page_size) that returned null
malloc_null(m) == [m EXCEPT !.malloc_fails = IF @ > 0 THEN @ - 1 ELSE 0]

\* ------------------------------------------------------------ paging
\* F applied to the value of e (a local variable holding a call's result)
Bind(e, F(_)) == CHOOSE x \in {F(r) : r \in {e}} : TRUE

\* swap_out that writes a page back only when forced
swap_out_unwritten(m, idx, force) ==
    IF ~valid_index(idx) THEN Ret(m, FALSE)
    ELSE LET page == m.pages[idx] IN
      IF ~page.allocated THEN Ret(m, FALSE)
      ELSE IF ~page.in_ram \/ ~page.ram_addr THEN Ret(m, TRUE)
      ELSE
        LET m1 == IF force
                  THEN [store_write(m, page.swap_offset, m.ram[idx])
                          EXCEPT !.pages[idx].dirty = FALSE]
                  ELSE [m EXCEPT !.pages[idx].dirty = FALSE]
            m2 == IF page.can_free_ram
                  THEN [m1 EXCEPT !.ram[idx] = ZeroPage,
                                  !.pages[idx].ram_addr = FALSE,
                                  !.pages[idx].in_ram = FALSE]
                  ELSE m1
        IN Ret(m2, TRUE)

\* swap_out that releases the buffer whatever can_free_ram says
swap_out_any(m, idx, force) ==
    IF ~valid_index(idx) THEN Ret(m, FALSE)
    ELSE LET page == m.pages[idx] IN
      IF ~page.allocated THEN Ret(m, FALSE)
      ELSE IF ~page.in_ram \/ ~page.ram_addr THEN Ret(m, TRUE)
      ELSE
        LET m1 == IF page.dirty \/ force
                  THEN [store_write(m, page.swap_offset, m.ram[idx])
                          EXCEPT !.pages[idx].dirty = FALSE]
                  ELSE m
        IN Ret([m1 EXCEPT !.ram[idx] = ZeroPage,
                          !.pages[idx].ram_addr = FALSE,
                          !.pages[idx].in_ram = FALSE], TRUE)

swap_out(m, idx, force) ==
    IF ~valid_index(idx) THEN Ret(m, FALSE)
    ELSE LET page == m.pages[idx] IN
      IF ~page.allocated THEN Ret(m, FALSE)
      ELSE IF ~page.in_ram \/ ~page.ram_addr THEN Ret(m, TRUE)
      ELSE
        LET m1 == IF page.dirty \/ force
                  THEN [store_write(m, page.swap_offset, m.ram[idx])
                          EXCEPT !.pages[idx].dirty = FALSE]
                  ELSE m
            m2 == IF page.can_free_ram
                  THEN [m1 EXCEPT !.ram[idx] = ZeroPage,
                                  !.pages[idx].ram_addr = FALSE,
                                  !.pages[idx].in_ram = FALSE]
                  ELSE m1
        IN Ret(m2, TRUE)

\* a scan that takes the first eligible page, whatever its last_access
evict_scan_first(m, i, victim, best) ==
    LET E == {j \in PageIdx : /\ j >= i
                              /\ m.pages[j].allocated
                              /\ m.pages[j].in_ram /\ m.pages[j].ram_addr
                              /\ m.pages[j].can_free_ram}
    IN IF E = {} THEN victim ELSE CHOOSE j \in E : \A k \in E : j <= k

RECURSIVE evict_scan(_, _, _, _)
evict_scan(m, i, victim, best) ==
    IF i >= VM_PAGE_COUNT THEN victim
    ELSE LET pg == m.pages[i] IN
      IF ~pg.allocated THEN evict_scan(m, i + 1, victim, best)
      ELSE IF ~pg.in_ram \/ ~pg.ram_addr THEN evict_scan(m, i + 1, victim, best)
      ELSE IF ~pg.can_free_ram THEN evict_scan(m, i + 1, victim, best)
      ELSE IF pg.last_access < best THEN evict_scan(m, i + 1, i, pg.last_access)
      ELSE evict_scan(m, i + 1, victim, best)

evict_one_page(m) ==
    Bind(evict_scan(m, 0, -1, U64_MAX), LAMBDA victim :
      IF victim < 0 THEN Ret(m, FALSE)
      ELSE Bind(Log(m, "evict", victim, m.pages), LAMBDA m1 : swap_out(m1, victim, FALSE)))

\* a loop that evicts once and gives up instead of retrying malloc
alloc_ram_once(m, attempt) ==
    IF attempt >= VM_PAGE_COUNT THEN Ret(m, FALSE)
    ELSE IF malloc_ok(m) THEN Ret(Log(m, "malloc", 1, <<>>), TRUE)
    ELSE Ret(evict_one_page(Log(malloc_null(m), "malloc", 0, <<>>)).m, FALSE)

\* a loop that stops one attempt short of page_count
RECURSIVE alloc_ram_short(_, _)
alloc_ram_short(m, attempt) ==
    IF attempt >= VM_PAGE_COUNT - 1 THEN Ret(m, FALSE)
    ELSE IF malloc_ok(m) THEN Ret(Log(m, "malloc", 1, <<>>), TRUE)
    ELSE Bind(evict_one_page(Log(malloc_null(m), "malloc", 0, <<>>)), LAMBDA e :
           IF ~e.ret THEN Ret(e.m, FALSE)
           ELSE alloc_ram_short(e.m, attempt + 1))

RECURSIVE alloc_ram_loop(_, _)
alloc_ram_loop(m, attempt) ==
    IF attempt >= VM_PAGE_COUNT THEN Ret(m, FALSE)
    ELSE IF malloc_ok(m) THEN Ret(Log(m, "malloc", 1, <<>>), TRUE)
    ELSE Bind(evict_one_page(Log(malloc_null(m), "malloc", 0, <<>>)), LAMBDA e :
           IF ~e.ret THEN Ret(e.m, FALSE)
           ELSE alloc_ram_loop(e.m, attempt + 1))

\* returns ret = TRUE when a buffer was obtained; the caller stores it in ram_addr
alloc_ram_buffer_with_eviction(m) == alloc_ram_loop(m, 0)

\* the body of alloc_page_ex / alloc_page_at for the free slot i
alloc_page_slot(m, i, opts) ==
    Bind(alloc_ram_buffer_with_eviction(m), LAMBDA a :
      IF ~a.ret THEN [m |-> [a.m EXCEPT !.pages[i].ram_addr = FALSE], ret |-> FALSE, idx |-> -1]
      ELSE
        LET m1 == [a.m EXCEPT !.pages[i].ram_addr = TRUE,
                              !.ram[i] = a.m.junk,
                              !.pages[i].allocated = TRUE,
                              !.pages[i].in_ram = TRUE,
                              !.pages[i].can_free_ram = opts.can_free_ram,
                              !.pages[i].last_access = a.m.access_tick + 1,
                              !.access_tick = a.m.access_tick + 1,
                              !.pages[i].is_heap = FALSE]
            m2 == IF opts.reuse_swap_data
                  THEN [store_read(m1, m1.pages[i].swap_offset, i)
                          EXCEPT !.pages[i].dirty = FALSE,
                                 !.pages[i].zero_filled = FALSE]
                  ELSE IF opts.zero_on_alloc
                  THEN [m1 EXCEPT !.ram[i] = ZeroPage,
                                  !.pages[i].zero_filled = TRUE,
                                  !.pages[i].dirty = TRUE]
                  ELSE [m1 EXCEPT !.pages[i].zero_filled = FALSE,
                                  !.pages[i].dirty = TRUE]
        IN [m |-> m2, ret |-> TRUE, idx |-> i])

alloc_page_ex(m, opts) ==
    LET free == {i \in PageIdx : ~m.pages[i].allocated} IN
    IF free = {} THEN [m |-> m, ret |-> FALSE, idx |-> -1]
    ELSE alloc_page_slot(m, CHOOSE i \in free : \A j \in free : i <= j, opts)

\* the buffer part of swap_in: obtain a buffer when the page has none
swap_in_buffer(m, idx) ==
    IF ~m.pages[idx].in_ram \/ ~m.pages[idx].ram_addr
    THEN Bind(alloc_ram_buffer_with_eviction(m), LAMBDA b :
           IF ~b.ret
           THEN Ret([b.m EXCEPT !.pages[idx].ram_addr = FALSE], FALSE)
           ELSE Ret([b.m EXCEPT !.pages[idx].ram_addr = TRUE,
                                !.ram[idx] = b.m.junk,
                                !.pages[idx].in_ram = TRUE], TRUE))
    ELSE Ret(m, TRUE)

swap_in(m, idx) ==
    IF ~valid_index(idx) THEN Ret(m, FALSE)
    ELSE IF ~m.pages[idx].allocated THEN Ret(m, FALSE)
    ELSE
      Bind(swap_in_buffer(m, idx), LAMBDA a :
        IF ~a.ret THEN a
        ELSE LET m1 == store_read(a.m, a.m.pages[idx].swap_offset, idx) IN
             Ret([m1 EXCEPT !.pages[idx].last_access = a.m.access_tick + 1,
                            !.access_tick = a.m.access_tick + 1,
                            !.pages[idx].dirty = FALSE], TRUE))

\* a free_page that leaves the dirty flag as it is
free_page_keep_dirty(m, idx, wipe) ==
    IF ~valid_index(idx) THEN Ret(m, FALSE)
    ELSE IF ~m.pages[idx].allocated THEN Ret(m, TRUE)
    ELSE
      Bind(IF m.pages[idx].in_ram /\ m.pages[idx].ram_addr /\ ~wipe
           THEN swap_out(m, idx, FALSE).m ELSE m, LAMBDA m1 :
        LET m2 == IF wipe THEN store_write(m1, m1.pages[idx].swap_offset, ZeroPage) ELSE m1
        IN Ret([m2 EXCEPT !.ram[idx] = ZeroPage,
                          !.pages[idx].ram_addr = FALSE,
                          !.pages[idx].in_ram = FALSE,
                          !.pages[idx].allocated = FALSE,
                          !.pages[idx].zero_filled = TRUE,
                          !.pages[idx].is_heap = FALSE,
                          !.pages[idx].last_access = m1.access_tick + 1,
                          !.access_tick = m1.access_tick + 1], TRUE))

free_page(m, idx, wipe) ==
    IF ~valid_index(idx) THEN Ret(m, FALSE)
    ELSE IF ~m.pages[idx].allocated THEN Ret(m, TRUE)
    ELSE
      Bind(IF m.pages[idx].in_ram /\ m.pages[idx].ram_addr /\ ~wipe
           THEN swap_out(m, idx, FALSE).m ELSE m, LAMBDA m1 :
        LET m2 == IF wipe THEN store_write(m1, m1.pages[idx].swap_offset, ZeroPage) ELSE m1
        IN Ret([m2 EXCEPT !.ram[idx] = ZeroPage,
                          !.pages[idx].ram_addr = FALSE,
                          !.pages[idx].in_ram = FALSE,
                          !.pages[idx].allocated = FALSE,
                          !.pages[idx].dirty = FALSE,
                          !.pages[idx].zero_filled = TRUE,
                          !.pages[idx].is_heap = FALSE,
                          !.pages[idx].last_access = m1.access_tick + 1,
                          !.access_tick = m1.access_tick + 1], TRUE))

\* ret = TRUE: a non-null pointer ram_addr + offset is returned
get_ptr_internal(m, page_idx, offset, mark_dirty_flag) ==
    IF ~valid_index(page_idx) THEN Ret(m, FALSE)
    ELSE IF ~m.pages[page_idx].allocated THEN Ret(m, FALSE)
    ELSE
      Bind(IF ~m.pages[page_idx].in_ram THEN swap_in(m, page_idx) ELSE Ret(m, TRUE),
           LAMBDA s :
        IF ~s.ret THEN Ret(s.m, FALSE)
        ELSE IF offset >= VM_PAGE_SIZE THEN Ret(s.m, FALSE)
        ELSE Ret([s.m EXCEPT !.pages[page_idx].last_access = s.m.access_tick + 1,
                             !.access_tick = s.m.access_tick + 1,
                             !.pages[page_idx].dirty = IF mark_dirty_flag THEN TRUE ELSE @],
                 TRUE))

\* a read accessor that marks the page dirty like the write accessor
get_read_ptr_dirty(m, page_idx, offset) == get_ptr_internal(m, page_idx, offset, TRUE)

get_read_ptr(m, page_idx, offset) == get_ptr_internal(m, page_idx, offset, FALSE)
get_write_ptr(m, page_idx, offset) == get_ptr_internal(m, page_idx, offset, TRUE)

\* a flush loop that passes over the pages that may not be evicted
RECURSIVE flush_loop_evictable(_, _)
flush_loop_evictable(m, i) ==
    IF i >= VM_PAGE_COUNT THEN m
    ELSE Bind(IF m.pages[i].allocated /\ m.pages[i].can_free_ram
              THEN swap_out(m, i, TRUE).m ELSE m,
              LAMBDA m1 : flush_loop_evictable(m1, i + 1))

RECURSIVE flush_loop(_, _)
flush_loop(m, i) ==
    IF i >= VM_PAGE_COUNT THEN m
    ELSE Bind(IF m.pages[i].allocated THEN swap_out(m, i, TRUE).m ELSE m,
              LAMBDA m1 : flush_loop(m1, i + 1))

flush_all(m) == flush_loop(m, 0)

\* a shutdown loop that swaps the allocated pages out without freeing them
RECURSIVE end_loop_swap_only(_, _)
end_loop_swap_only(m, i) ==
    IF i >= VM_PAGE_COUNT THEN m
    ELSE Bind(IF m.pages[i].allocated THEN swap_out(m, i, FALSE).m ELSE m,
              LAMBDA m1 : end_loop_swap_only(m1, i + 1))

RECURSIVE end_loop(_, _)
end_loop(m, i) ==
    IF i >= VM_PAGE_COUNT THEN m
    ELSE Bind(IF m.pages[i].allocated
              THEN Bind(swap_out(m, i, FALSE).m, LAMBDA m1 : free_page(m1, i, FALSE).m)
              ELSE IF m.pages[i].ram_addr
              THEN [m EXCEPT !.ram[i] = ZeroPage, !.pages[i].ram_addr = FALSE]
              ELSE m,
              LAMBDA m2 : end_loop(m2, i + 1))

end(m) == IF ~m.started THEN m ELSE [end_loop(m, 0) EXCEPT !.started = FALSE]

\* a begin that packs the regions at half the page size
begin_packed(m) ==
    Bind(IF m.started THEN end(m) ELSE m, LAMBDA m0 :
      IF ~m0.store_ok THEN Ret(m0, FALSE)
      ELSE Ret([m0 EXCEPT
                  !.store = [o \in {i * VM_PAGE_SIZE : i \in PageIdx} |-> ZeroPage],
                  !.pages = [i \in PageIdx |->
                              [allocated |-> FALSE, in_ram |-> FALSE, can_free_ram |-> TRUE,
                               dirty |-> FALSE, zero_filled |-> TRUE, is_heap |-> FALSE,
                               ram_addr |-> FALSE,
                               swap_offset |-> (i \div 2) * 2 * VM_PAGE_SIZE,
                               last_access |-> 0]],
                  !.access_tick = 0,
                  !.started = TRUE], TRUE))

begin(m) ==
    Bind(IF m.started THEN end(m) ELSE m, LAMBDA m0 :
      IF ~m0.store_ok THEN Ret(m0, FALSE)
      ELSE Ret([m0 EXCEPT
                  !.store = [o \in {i * VM_PAGE_SIZE : i \in PageIdx} |-> ZeroPage],
                  !.pages = [i \in PageIdx |->
                              [allocated |-> FALSE, in_ram |-> FALSE, can_free_ram |-> TRUE,
                               dirty |-> FALSE, zero_filled |-> TRUE, is_heap |-> FALSE,
                               ram_addr |-> FALSE, swap_offset |-> i * VM_PAGE_SIZE,
                               last_access |-> 0]],
                  !.access_tick = 0,
                  !.started = TRUE], TRUE))

\* ------------------------------------------------------------ small-block heap
\* size_t arithmetic wraps modulo SIZE_MOD (the width is scaled down to 8 bits);
\* the uint32_t header fields are given the same scaled width
SIZE_MOD == 256

\* an align_up that leaves the size as requested
align_up_none(v) == v % SIZE_MOD

align_up(v) == (((v + (HEAP_ALIGN - 1)) % SIZE_MOD) \div HEAP_ALIGN) * HEAP_ALIGN

\* HeapHeader / BlockHeader field access inside a page buffer c
hh_magic(c) == c[0][1]
hh_version(c) == c[0][2]
hh_first_free(c) == c[1][1]
hh_total_free(c) == c[1][2]
bh_size(c, off) == c[W(off)][1]
bh_next_free(c, off) == c[W(off)][2]
bh_flags(c, off) == c[W(off) + 1][1]
set_hh(c, first, total) == [c EXCEPT ![1] = <<first, total>>]
set_bh(c, off, size, next, flags) ==
    [c EXCEPT ![W(off)] = <<size, next>>, ![W(off) + 1] = <<flags, @[2]>>]

heap_max_payload ==
    IF VM_PAGE_SIZE <= HH_SIZE + BH_SIZE THEN 0 ELSE VM_PAGE_SIZE - HH_SIZE - BH_SIZE

ensure_heap_header(m, idx) ==
    IF ~valid_index(idx) THEN Ret(m, FALSE)
    ELSE IF ~m.pages[idx].allocated THEN Ret(m, FALSE)
    ELSE
      Bind(IF ~m.pages[idx].in_ram \/ ~m.pages[idx].ram_addr
           THEN swap_in(m, idx) ELSE Ret(m, TRUE), LAMBDA s :
        IF ~s.ret THEN Ret(s.m, FALSE)
        ELSE
          LET pg == s.m.pages[idx]
              c == s.m.ram[idx]
          IN
          IF pg.zero_filled \/ ~pg.is_heap \/ hh_magic(c) # HEAP_MAGIC
                \/ hh_version(c) # HEAP_VERSION
          THEN
            LET first_block_off == HH_SIZE
                usable == IF VM_PAGE_SIZE > first_block_off + BH_SIZE
                          THEN VM_PAGE_SIZE - first_block_off - BH_SIZE ELSE 0
                c0 == [ZeroPage EXCEPT ![0] = <<HEAP_MAGIC, HEAP_VERSION>>]
            IN
            IF usable = 0 THEN Ret([s.m EXCEPT !.ram[idx] = c0], FALSE)
            ELSE
              LET c1 == set_bh(c0, first_block_off, align_up(usable), 0, 1)
                  c2 == set_hh(c1, first_block_off, align_up(usable))
              IN Ret(Log([s.m EXCEPT !.ram[idx] = c2,
                                     !.pages[idx].is_heap = TRUE,
                                     !.pages[idx].zero_filled = FALSE,
                                     !.pages[idx].dirty = TRUE], "heap_init", idx, <<>>),
                     TRUE)
          ELSE Ret(s.m, TRUE))

default_alloc_options ==
    [can_free_ram |-> TRUE, zero_on_alloc |-> TRUE, reuse_swap_data |-> FALSE]

alloc_heap_page(m) ==
    Bind(alloc_page_ex(m, [default_alloc_options EXCEPT !.zero_on_alloc = TRUE,
                                                        !.reuse_swap_data = FALSE]),
         LAMBDA a :
      IF ~a.ret THEN [m |-> a.m, ret |-> FALSE, idx |-> -1]
      ELSE
        Bind(ensure_heap_header([a.m EXCEPT !.pages[a.idx].is_heap = TRUE], a.idx),
             LAMBDA e :
          IF ~e.ret THEN [m |-> free_page(e.m, a.idx, TRUE).m, ret |-> FALSE, idx |-> -1]
          ELSE [m |-> e.m, ret |-> TRUE, idx |-> a.idx]))

\* the first-fit walk of the free list: <<prev_off, cur_off>> of the first free
\* block with size >= need, or <<0, 0>> when the walk ends without one
RECURSIVE first_fit(_, _, _, _, _)
first_fit(c, need, prev_off, cur_off, fuel) ==
    IF cur_off = 0 \/ fuel = 0 THEN <<0, 0>>
    ELSE IF (bh_flags(c, cur_off) % 2 = 1) /\ bh_size(c, cur_off) >= need
    THEN <<prev_off, cur_off>>
    ELSE first_fit(c, need, cur_off, bh_next_free(c, cur_off), fuel - 1)

\* a split that forgets the header of the block it hands out
split_off_nohdr(alloc_off, need) == alloc_off + need

\* where the header of the remainder goes when the block at alloc_off is split
split_off(alloc_off, need) == alloc_off + BH_SIZE + need

\* split the fitting block at cur_off of page buffer c
heap_split(c, need, prev_off, cur_off, remaining) ==
    Bind(split_off(cur_off, need), LAMBDA new_free_off :
    Bind(set_bh(c, new_free_off, align_up(remaining - BH_SIZE),
                bh_next_free(c, cur_off), 1), LAMBDA c1 :
    Bind(set_bh(c1, cur_off, need, 0, 0), LAMBDA c2 :
    Bind(IF prev_off = 0
         THEN set_hh(c2, new_free_off, hh_total_free(c2))
         ELSE [c2 EXCEPT ![W(prev_off)] = <<@[1], new_free_off>>], LAMBDA c3 :
      set_hh(c3, hh_first_free(c3), (hh_total_free(c3) - (need + BH_SIZE)) % SIZE_MOD)))))

\* a whole-block hand-out that leaves total_free as it was
heap_whole_uncounted(c, prev_off, cur_off) ==
    Bind(IF prev_off = 0
         THEN set_hh(c, bh_next_free(c, cur_off), hh_total_free(c))
         ELSE [c EXCEPT ![W(prev_off)] = <<@[1], bh_next_free(c, cur_off)>>], LAMBDA c1 :
      set_bh(c1, cur_off, bh_size(c1, cur_off), 0, 0))

\* a whole-block allocation that leaves the block linked on the free list
heap_whole_linked(c, prev_off, cur_off) ==
    Bind(set_bh(c, cur_off, bh_size(c, cur_off), bh_next_free(c, cur_off), 0), LAMBDA c2 :
      set_hh(c2, hh_first_free(c2),
             IF hh_total_free(c2) >= bh_size(c2, cur_off)
             THEN hh_total_free(c2) - bh_size(c2, cur_off) ELSE 0))

\* hand out the whole fitting block at cur_off of page buffer c
heap_whole(c, prev_off, cur_off) ==
    Bind(IF prev_off = 0
         THEN set_hh(c, bh_next_free(c, cur_off), hh_total_free(c))
         ELSE [c EXCEPT ![W(prev_off)] = <<@[1], bh_next_free(c, cur_off)>>], LAMBDA c1 :
    Bind(set_bh(c1, cur_off, bh_size(c1, cur_off), 0, 0), LAMBDA c2 :
      set_hh(c2, hh_first_free(c2),
             IF hh_total_free(c2) >= bh_size(c2, cur_off)
             THEN hh_total_free(c2) - bh_size(c2, cur_off) ELSE 0)))

\* split or take the fitting block at cur_off of page i
heap_take(m, i, need, prev_off, cur_off) ==
    Bind(m.ram[i], LAMBDA c :
      IF bh_size(c, cur_off) - need >= BH_SIZE + HEAP_ALIGN
      THEN [m |-> [m EXCEPT !.ram[i] = heap_split(c, need, prev_off, cur_off,
                                                  bh_size(c, cur_off) - need),
                            !.pages[i].dirty = TRUE],
            ret |-> TRUE, page |-> i, off |-> cur_off + BH_SIZE, alloc_size |-> need]
      ELSE [m |-> [m EXCEPT !.ram[i] = heap_whole(c, prev_off, cur_off),
                            !.pages[i].dirty = TRUE],
            ret |-> TRUE, page |-> i, off |-> cur_off + BH_SIZE,
            alloc_size |-> bh_size(c, cur_off)])

HeapFail(m, pg) == [m |-> m, ret |-> FALSE, page |-> pg, off |-> 0, alloc_size |-> 0]

\* 2) no fit found: allocate a new heap page and allocate from it
heap_alloc_new_page(m, need) ==
    Bind(alloc_heap_page(m), LAMBDA a :
      IF ~a.ret THEN HeapFail(a.m, -1)
      ELSE
        Bind(ensure_heap_header(a.m, a.idx), LAMBDA e :
          IF ~e.ret THEN HeapFail(e.m, a.idx)
          ELSE
            Bind(first_fit(e.m.ram[a.idx], need, 0, hh_first_free(e.m.ram[a.idx]), NWords),
                 LAMBDA f :
              IF f[2] = 0 THEN HeapFail(e.m, a.idx)
              ELSE heap_take(e.m, a.idx, need, f[1], f[2]))))

\* a heap_alloc that never looks at the existing heap pages
heap_search_new(m, need, i) == heap_alloc_new_page(m, need)

\* 1) search the existing heap pages from page i on
RECURSIVE heap_search(_, _, _)
heap_search(m, need, i) ==
    IF i >= VM_PAGE_COUNT THEN heap_alloc_new_page(m, need)
    ELSE IF ~m.pages[i].allocated \/ ~m.pages[i].is_heap THEN heap_search(m, need, i + 1)
    ELSE
      Bind(ensure_heap_header(m, i), LAMBDA e :
        IF ~e.ret THEN heap_search(e.m, need, i + 1)
        ELSE IF hh_total_free(e.m.ram[i]) < need THEN heap_search(e.m, need, i + 1)
        ELSE
          Bind(first_fit(e.m.ram[i], need, 0, hh_first_free(e.m.ram[i]), NWords),
               LAMBDA f :
            IF f[2] = 0 THEN heap_search(e.m, need, i + 1)
            ELSE heap_take(e.m, i, need, f[1], f[2])))

heap_alloc(m, size) == heap_search(m, align_up(size), 0)

\* a heap_free without the test of the block's free flag
heap_free_unchecked(m, page_idx, payload_off) ==
    IF ~valid_index(page_idx) THEN Ret(m, FALSE)
    ELSE IF ~m.pages[page_idx].allocated \/ ~m.pages[page_idx].is_heap THEN Ret(m, FALSE)
    ELSE
      Bind(ensure_heap_header(m, page_idx), LAMBDA e :
        IF ~e.ret THEN Ret(e.m, FALSE)
        ELSE IF payload_off < BH_SIZE THEN Ret(e.m, FALSE)
        ELSE
          LET hdr_off == payload_off - BH_SIZE
              c == e.m.ram[page_idx]
          IN
          IF hdr_off + BH_SIZE > VM_PAGE_SIZE THEN Ret(e.m, FALSE)
          ELSE
            LET c1 == set_bh(c, hdr_off, bh_size(c, hdr_off), hh_first_free(c), 1)
                c2 == set_hh(c1, hdr_off, (hh_total_free(c) + bh_size(c, hdr_off)) % SIZE_MOD)
            IN Ret([e.m EXCEPT !.ram[page_idx] = c2, !.pages[page_idx].dirty = TRUE], TRUE))

\* a heap_free that leaves the block as it is
heap_free_lost(m, page_idx, payload_off) == Ret(m, TRUE)

\* ret = TRUE when the block was turned from used to free
heap_free(m, page_idx, payload_off) ==
    IF ~valid_index(page_idx) THEN Ret(m, FALSE)
    ELSE IF ~m.pages[page_idx].allocated \/ ~m.pages[page_idx].is_heap THEN Ret(m, FALSE)
    ELSE
      Bind(ensure_heap_header(m, page_idx), LAMBDA e :
        IF ~e.ret THEN Ret(e.m, FALSE)
        ELSE IF payload_off < BH_SIZE THEN Ret(e.m, FALSE)
        ELSE
          LET hdr_off == payload_off - BH_SIZE
              c == e.m.ram[page_idx]
          IN
          IF hdr_off + BH_SIZE > VM_PAGE_SIZE THEN Ret(e.m, FALSE)
          ELSE IF bh_flags(c, hdr_off) % 2 = 0
          THEN
            LET c1 == set_bh(c, hdr_off, bh_size(c, hdr_off), hh_first_free(c), 1)
                c2 == set_hh(c1, hdr_off, (hh_total_free(c) + bh_size(c, hdr_off)) % SIZE_MOD)
            IN Ret([e.m EXCEPT !.ram[page_idx] = c2, !.pages[page_idx].dirty = TRUE], TRUE)
          ELSE Ret(e.m, FALSE))

small_alloc(m, size) == heap_alloc(m, size)
small_free(m, page_idx, payload_off) == heap_free(m, page_idx, payload_off)
small_read_ptr(m, page_idx, payload_off) == get_read_ptr(m, page_idx, payload_off)
small_write_ptr(m, page_idx, payload_off) == get_write_ptr(m, page_idx, payload_off)

\* the smaller of two sizes (std::min)
Min(a, b) == IF a <= b THEN a ELSE b

\* memcpy(new_ptr, old_ptr, to_copy) of whole words; src_ok: old_ptr still points
\* into the buffer of old_page.  Otherwise old_ptr points into freed memory, and
\* what is read from it is the bytes the buffer held when it was evicted
\* (ub = "stale") or whatever the allocator put there since (ub = "junk")
realloc_copy(m, old_page, old_off, np, noff, to_copy, src_ok, ub) ==
    [m EXCEPT !.ram[np] =
        [w \in Words |->
            IF w >= W(noff) /\ w < W(noff) + to_copy \div HEAP_ALIGN
            THEN LET sw == W(old_off) + (w - W(noff))
                 IN IF sw \notin Words THEN m.junk[w]
                    ELSE IF src_ok THEN m.ram[old_page][sw]
                    ELSE IF ub = "stale" THEN m.store[m.pages[old_page].swap_offset][sw]
                    ELSE m.junk[sw]
            ELSE m.ram[np][w]]]

MoveResult(m, ret, page, off, alloc_size, copied, src_ok, dst_ok) ==
    [m |-> m, ret |-> ret, page |-> page, off |-> off, alloc_size |-> alloc_size,
     copied |-> copied, src_ok |-> src_ok, dst_ok |-> dst_ok]

small_realloc_move(m, old_page, old_off, new_min_size, copy_bytes, ub) ==
    Bind(small_alloc(m, new_min_size), LAMBDA a :
      IF ~a.ret THEN MoveResult(a.m, FALSE, -1, 0, 0, FALSE, FALSE, FALSE)
      ELSE
        Bind(Min(copy_bytes, a.alloc_size), LAMBDA to_copy :
          IF to_copy = 0
          THEN Bind(small_free(a.m, old_page, old_off), LAMBDA f :
                 MoveResult(f.m, TRUE, a.page, a.off, a.alloc_size, FALSE, FALSE, FALSE))
          ELSE
            Bind(small_read_ptr(a.m, old_page, old_off), LAMBDA o :
              Bind(small_write_ptr(o.m, a.page, a.off), LAMBDA n :
                IF o.ret /\ n.ret
                THEN
                  Bind(realloc_copy(n.m, old_page, old_off, a.page, a.off, to_copy,
                                    n.m.pages[old_page].in_ram, ub),
                       LAMBDA c :
                    Bind(small_free(c, old_page, old_off), LAMBDA f :
                      MoveResult(f.m, TRUE, a.page, a.off, a.alloc_size, TRUE,
                                 n.m.pages[old_page].in_ram, n.m.pages[a.page].in_ram)))
                ELSE
                  Bind(small_free(n.m, old_page, old_off), LAMBDA f :
                    MoveResult(f.m, TRUE, a.page, a.off, a.alloc_size, FALSE,
                               FALSE, FALSE))))))

\* ------------------------------------------------------------ VMPtr<T>
\* sizeof(T) of the handles' element type
T_SIZE == 8

\* a binding step that allocates on every dereference
ptr_bind_always(m, hv, s) ==
    Bind(small_alloc(m, s), LAMBDA a :
      IF ~a.ret THEN [m |-> a.m, ret |-> FALSE, h |-> hv]
      ELSE [m |-> a.m, ret |-> TRUE, h |-> [page_idx |-> a.page, offset |-> a.off]])

\* bind(): the lazy allocation of an Unbound handle of a VMPtr<T> with sizeof(T) = s
ptr_bind(m, hv, s) ==
    IF hv.page_idx = -1
    THEN Bind(small_alloc(m, s), LAMBDA a :
           IF ~a.ret THEN [m |-> a.m, ret |-> FALSE, h |-> hv]
           ELSE [m |-> a.m, ret |-> TRUE, h |-> [page_idx |-> a.page, offset |-> a.off]])
    ELSE IF ~valid_index(hv.page_idx) THEN [m |-> m, ret |-> FALSE, h |-> hv]
    ELSE [m |-> m, ret |-> TRUE, h |-> hv]

\* an ensure_loaded without the check that the object fits inside one page
ensure_loaded_nofit(m, hv, s) ==
    Bind(ptr_bind(m, hv, s), LAMBDA b :
      IF ~b.ret THEN b
      ELSE IF ~b.m.pages[b.h.page_idx].in_ram \/ ~b.m.pages[b.h.page_idx].ram_addr
      THEN Bind(swap_in(b.m, b.h.page_idx), LAMBDA i : [m |-> i.m, ret |-> i.ret, h |-> b.h])
      ELSE b)

\* ret = FALSE: std::runtime_error is thrown; h is the handle afterwards
ensure_loaded(m, hv, s) ==
    Bind(ptr_bind(m, hv, s), LAMBDA b :
      IF ~b.ret THEN b
      ELSE IF b.h.offset + s > VM_PAGE_SIZE THEN [b EXCEPT !.ret = FALSE]
      ELSE IF ~b.m.pages[b.h.page_idx].in_ram \/ ~b.m.pages[b.h.page_idx].ram_addr
      THEN Bind(swap_in(b.m, b.h.page_idx), LAMBDA i : [m |-> i.m, ret |-> i.ret, h |-> b.h])
      ELSE b)

\* operator* / operator-> / get(): ensure_loaded, then ptr_write or ptr_read
deref(m, hv, write, s) ==
    Bind(ensure_loaded(m, hv, s), LAMBDA e :
      IF ~e.ret THEN e
      ELSE Bind(IF write THEN small_write_ptr(e.m, e.h.page_idx, e.h.offset)
                ELSE small_read_ptr(e.m, e.h.page_idx, e.h.offset),
                LAMBDA p : [m |-> p.m, ret |-> p.ret, h |-> e.h]))

\* the destructor call of destroy() for a T that is not trivially destructible
destroy_object(m, hv) ==
    Bind(ensure_loaded(m, hv, T_SIZE), LAMBDA e :
      IF ~e.ret THEN e.m
      ELSE small_write_ptr(e.m, hv.page_idx, hv.offset).m)

\* a destroy() without the test for an Unbound handle
destroy_unguarded(m, hv, nontrivial) ==
    Bind(IF nontrivial THEN destroy_object(m, hv) ELSE m, LAMBDA m1 :
      Bind(small_free(m1, hv.page_idx, hv.offset), LAMBDA f :
        [m |-> f.m, h |-> NullHandle, freed |-> f.ret]))

\* freed = TRUE when small_free turned the block from used to free
destroy(m, hv, nontrivial) ==
    IF hv.page_idx < 0 THEN [m |-> m, h |-> hv, freed |-> FALSE]
    ELSE
      Bind(IF nontrivial THEN destroy_object(m, hv) ELSE m, LAMBDA m1 :
        Bind(small_free(m1, hv.page_idx, hv.offset), LAMBDA f :
          [m |-> f.m, h |-> NullHandle, freed |-> f.ret]))

\* valid(): the virtual position is well-formed for an element of size s
valid(hv, s) ==
    IF hv.page_idx = -1 THEN TRUE
    ELSE valid_index(hv.page_idx) /\ hv.offset + s <= VM_PAGE_SIZE

\* int64_t division and remainder, which truncate toward zero
c_div(a, b) == IF a >= 0 THEN a \div b ELSE -((-a) \div b)
c_rem(a, b) == a - b * c_div(a, b)

\* an operator+ that borrows a page for a negative remainder without
\* decrementing the page index
operator_plus_noborrow(hv, n, s) ==
    IF ~valid(hv, s) THEN [ok |-> FALSE, h |-> hv]
    ELSE LET total == hv.offset + n * s
             rem == c_rem(total, VM_PAGE_SIZE)
         IN [ok |-> TRUE,
             h |-> [page_idx |-> hv.page_idx + c_div(total, VM_PAGE_SIZE),
                    offset |-> IF rem < 0 THEN rem + VM_PAGE_SIZE ELSE rem]]

\* an operator+ that keeps the truncated quotient and remainder
operator_plus_trunc(hv, n, s) ==
    IF ~valid(hv, s) THEN [ok |-> FALSE, h |-> hv]
    ELSE [ok |-> TRUE,
          h |-> [page_idx |-> hv.page_idx + c_div(hv.offset + n * s, VM_PAGE_SIZE),
                 offset |-> c_rem(hv.offset + n * s, VM_PAGE_SIZE)]]

\* operator+(n) for elements of size s; ok = FALSE: std::runtime_error is thrown
operator_plus(hv, n, s) ==
    IF ~valid(hv, s) THEN [ok |-> FALSE, h |-> hv]
    ELSE LET ps == VM_PAGE_SIZE
             total == hv.offset + n * s
             page_delta == c_div(total, ps)
             rem == c_rem(total, ps)
         IN [ok |-> TRUE,
             h |-> [page_idx |-> hv.page_idx + (IF rem < 0 THEN page_delta - 1 ELSE page_delta),
                    offset |-> IF rem < 0 THEN rem + ps ELSE rem]]

\* operator-(n)
operator_minus(hv, n, s) == operator_plus(hv, -n, s)

\* operator[](n): *(*this + n); h is the temporary handle operator+ returned,
\* as the dereference left it, and the handle indexed is not touched
index(m, hv, n, write, s) ==
    Bind(operator_plus(hv, n, s), LAMBDA t :
      IF ~t.ok THEN [m |-> m, ret |-> FALSE, h |-> hv]
      ELSE deref(m, t.h, write, s))

\* the constructors T(args...) that make_vm can run: one that only fills the
\* object, and one that first takes a pinned page of its own (pins); either can
\* end by throwing
Ctors == [pins : BOOLEAN, throws : BOOLEAN]
PinnedOptions == [can_free_ram |-> FALSE, zero_on_alloc |-> TRUE, reuse_swap_data |-> FALSE]

\* new(ptr) T(std::forward<Args>(args)...); ret = FALSE: the constructor throws
construct(m, ctor) ==
    Bind(IF ctor.pins THEN alloc_page_ex(m, PinnedOptions).m ELSE m, LAMBDA m1 :
      Ret(m1, ~ctor.throws))

\* ret = FALSE: make_vm throws; h is the handle it returns otherwise
make_vm(m, ctor) ==
    Bind(small_alloc(m, T_SIZE), LAMBDA a :
      IF ~a.ret THEN [m |-> a.m, ret |-> FALSE, h |-> NullHandle]
      ELSE
        Bind(small_write_ptr(a.m, a.page, a.off), LAMBDA p :
          IF ~p.ret
          THEN [m |-> small_free(p.m, a.page, a.off).m, ret |-> FALSE, h |-> NullHandle]
          ELSE
            Bind(construct(p.m, ctor), LAMBDA c :
              IF ~c.ret
              THEN [m |-> small_free(c.m, a.page, a.off).m, ret |-> FALSE,
                    h |-> NullHandle]
              ELSE [m |-> c.m, ret |-> TRUE,
                    h |-> [page_idx |-> a.page, offset |-> a.off]])))

\* ------------------------------------------------------------ VMVector<T>
\* sizeof(T) of the vectors' element type
V_SIZE == 16
VecIds == {1, 2}
ChunkIdx == 0 .. (VM_PAGE_COUNT - 1)
EmptyChunk == [page_idx |-> -1, count |-> 0]

\* VMVector(): starts in flat mode
NewVector ==
    [chunks |-> [i \in ChunkIdx |-> EmptyChunk],
     chunk_capacity |-> VM_PAGE_SIZE \div V_SIZE, chunk_count |-> 0, size |-> 0,
     flat_mode |-> TRUE, flat_page |-> -1, flat_offset |-> 0, flat_capacity |-> 0]

\* ok = FALSE: the operation ran into a store or an index that has no defined
\* behaviour and the program trapped
VRes(m, v, ok) == [m |-> m, v |-> v, ok |-> ok]

\* an element of value x as the words it occupies
Elem(x) == <<<<x, 0>>, ZeroWord>>
get_elem(c, off) == <<c[W(off)], c[W(off) + 1]>>
put_elem(c, off, e) == [c EXCEPT ![W(off)] = e[1], ![W(off) + 1] = e[2]]

\* new(ptr + delta) T(e) for ptr = page_write_ptr(page_idx, base_off).  When ptr
\* is null, or ptr + delta is past the buffer, the store is undefined: it traps
\* (nullw = "trap") or is lost (nullw = "lost")
store_at(m, page_idx, base_off, delta, e, nullw) ==
    Bind(get_write_ptr(m, page_idx, base_off), LAMBDA p :
      IF p.ret /\ base_off + delta + V_SIZE <= VM_PAGE_SIZE
      THEN [m |-> [p.m EXCEPT !.ram[page_idx] = put_elem(@, base_off + delta, e)],
            ok |-> TRUE]
      ELSE [m |-> p.m, ok |-> nullw # "trap"])

\* page_alloc into _chunks[_chunk_count]; the result of page_alloc is not
\* looked at, so a failed allocation leaves page_idx = -1 in the new chunk
vec_add_chunk(m, v) ==
    IF v.chunk_count \notin ChunkIdx THEN VRes(m, v, FALSE)
    ELSE
      Bind(alloc_page_ex(m, default_alloc_options), LAMBDA a :
        VRes(a.m,
             [v EXCEPT !.chunks[v.chunk_count] =
                           [page_idx |-> IF a.ret THEN a.idx ELSE -1, count |-> 0],
                       !.chunk_count = @ + 1],
             TRUE))

ensure_back_slot(m, v) ==
    IF v.chunk_count = 0 THEN vec_add_chunk(m, v)
    ELSE IF (v.chunk_count - 1) \notin ChunkIdx THEN VRes(m, v, FALSE)
    ELSE IF v.chunks[v.chunk_count - 1].count >= v.chunk_capacity THEN vec_add_chunk(m, v)
    ELSE VRes(m, v, TRUE)

\* the paged branch of push_back
push_back_paged(m, v, e, nullw) ==
    Bind(ensure_back_slot(m, v), LAMBDA s :
      IF ~s.ok THEN s
      ELSE
        Bind(s.v.chunk_count - 1, LAMBDA k :
          Bind(store_at(s.m, s.v.chunks[k].page_idx,
                        (s.v.chunks[k].count * V_SIZE) % SIZE_MOD, 0, e, nullw),
               LAMBDA w :
            VRes(w.m, [s.v EXCEPT !.chunks[k].count = (@ + 1) % SIZE_MOD,
                                  !.size = @ + 1], w.ok))))

\* flat_base[i] in transition_to_paged: flat_base was taken before the loop
\* (base_ok: it was not null); when the heap page has lost its buffer since, or
\* the element lies past the buffer, what is read is the bytes the buffer held
\* when it was evicted (ub = "stale") or whatever is there now (ub = "junk")
flat_read(m, v, i, base_ok, ub) ==
    Bind(v.flat_offset + i * V_SIZE, LAMBDA off :
      IF ~base_ok \/ off + V_SIZE > VM_PAGE_SIZE THEN get_elem(m.junk, 0)
      ELSE IF m.pages[v.flat_page].in_ram /\ m.pages[v.flat_page].ram_addr
      THEN get_elem(m.ram[v.flat_page], off)
      ELSE IF ub = "stale" THEN get_elem(m.store[m.pages[v.flat_page].swap_offset], off)
      ELSE get_elem(m.junk, 0))

\* the copy loop of transition_to_paged from element i on
RECURSIVE transition_copy(_, _, _, _, _, _)
transition_copy(m, v, i, base_ok, ub, nullw) ==
    IF i >= v.size THEN VRes(m, v, TRUE)
    ELSE
      Bind(ensure_back_slot(m, v), LAMBDA s :
        IF ~s.ok THEN s
        ELSE
          Bind(s.v.chunk_count - 1, LAMBDA k :
            Bind(get_write_ptr(s.m, s.v.chunks[k].page_idx,
                               (s.v.chunks[k].count * V_SIZE) % SIZE_MOD), LAMBDA p :
              IF ~p.ret /\ nullw = "trap" THEN VRes(p.m, s.v, FALSE)
              ELSE
                transition_copy(
                  IF p.ret
                  THEN [p.m EXCEPT !.ram[s.v.chunks[k].page_idx] =
                          put_elem(@, s.v.chunks[k].count * V_SIZE,
                                   flat_read(p.m, s.v, i, base_ok, ub))]
                  ELSE p.m,
                  [s.v EXCEPT !.chunks[k].count = (@ + 1) % SIZE_MOD],
                  i + 1, base_ok, ub, nullw))))

transition_to_paged(m, v, ub, nullw) ==
    IF ~v.flat_mode THEN VRes(m, v, TRUE)
    ELSE
      Bind(IF v.size > 0 /\ v.flat_page >= 0
           THEN Bind(small_read_ptr(m, v.flat_page, v.flat_offset), LAMBDA r :
                  Bind(transition_copy(r.m, v, 0, r.ret, ub, nullw), LAMBDA c :
                    IF ~c.ok THEN c
                    ELSE VRes(small_free(c.m, v.flat_page, v.flat_offset).m, c.v, TRUE)))
           ELSE VRes(m, v, TRUE), LAMBDA t :
        VRes(t.m, [t.v EXCEPT !.flat_mode = FALSE, !.flat_page = -1,
                              !.flat_offset = 0, !.flat_capacity = 0], t.ok))

\* the capacity of the first flat block, in elements
initial_cap ==
    Bind(IF 16 * V_SIZE > heap_max_payload THEN heap_max_payload \div V_SIZE ELSE 16,
         LAMBDA c : IF c < 1 THEN 1 ELSE c)

ensure_flat_back_slot(m, v, ub, nullw) ==
    IF v.flat_page < 0
    THEN Bind(small_alloc(m, initial_cap * V_SIZE), LAMBDA a :
           IF a.ret
           THEN VRes(a.m, [v EXCEPT !.flat_page = a.page, !.flat_offset = a.off,
                                    !.flat_capacity = a.alloc_size \div V_SIZE], TRUE)
           ELSE transition_to_paged(a.m, v, ub, nullw))
    ELSE IF v.size < v.flat_capacity THEN VRes(m, v, TRUE)
    ELSE IF v.flat_capacity * 2 * V_SIZE > heap_max_payload
    THEN transition_to_paged(m, v, ub, nullw)
    ELSE Bind(small_realloc_move(m, v.flat_page, v.flat_offset,
                                 v.flat_capacity * 2 * V_SIZE, v.size * V_SIZE, ub),
              LAMBDA r :
           IF r.ret
           THEN VRes(r.m, [v EXCEPT !.flat_page = r.page, !.flat_offset = r.off,
                                    !.flat_capacity = r.alloc_size \div V_SIZE], TRUE)
           ELSE transition_to_paged(r.m, v, ub, nullw))

push_back(m, v, x, ub, nullw) ==
    Bind(IF v.flat_mode THEN ensure_flat_back_slot(m, v, ub, nullw) ELSE VRes(m, v, TRUE),
         LAMBDA f :
      IF ~f.ok THEN f
      ELSE IF f.v.flat_mode
      THEN Bind(store_at(f.m, f.v.flat_page, f.v.flat_offset, f.v.size * V_SIZE,
                         Elem(x), nullw), LAMBDA w :
             VRes(w.m, [f.v EXCEPT !.size = @ + 1], w.ok))
      ELSE push_back_paged(f.m, f.v, Elem(x), nullw))

\* ret = FALSE: std::out_of_range is thrown
pop_back(m, v) ==
    IF v.size = 0 THEN [m |-> m, v |-> v, ok |-> TRUE, ret |-> FALSE]
    ELSE IF v.flat_mode
    THEN [m |-> small_write_ptr(m, v.flat_page, v.flat_offset).m,
          v |-> [v EXCEPT !.size = @ - 1], ok |-> TRUE, ret |-> TRUE]
    ELSE
      Bind(v.size - 1, LAMBDA size1 :
      Bind(IF size1 % v.chunk_capacity = 0 /\ size1 \div v.chunk_capacity > 0
           THEN size1 \div v.chunk_capacity - 1 ELSE size1 \div v.chunk_capacity,
           LAMBDA chunk_num :
        IF chunk_num \notin ChunkIdx THEN [m |-> m, v |-> v, ok |-> FALSE, ret |-> TRUE]
        ELSE
          Bind((v.chunks[chunk_num].count - 1) % SIZE_MOD, LAMBDA cnt :
            Bind(get_write_ptr(m, v.chunks[chunk_num].page_idx,
                               (cnt * V_SIZE) % SIZE_MOD), LAMBDA p :
              IF cnt = 0
              THEN [m |-> free_page(p.m, v.chunks[chunk_num].page_idx, FALSE).m,
                    v |-> [v EXCEPT !.chunks[chunk_num] = EmptyChunk,
                                    !.chunk_count = (@ - 1) % SIZE_MOD,
                                    !.size = size1],
                    ok |-> TRUE, ret |-> TRUE]
              ELSE [m |-> p.m,
                    v |-> [v EXCEPT !.chunks[chunk_num].count = cnt, !.size = size1],
                    ok |-> TRUE, ret |-> TRUE]))))

RECURSIVE reserve_loop(_, _, _)
reserve_loop(m, v, required_chunks) ==
    IF v.chunk_count >= required_chunks THEN VRes(m, v, TRUE)
    ELSE Bind(vec_add_chunk(m, v), LAMBDA a :
           IF ~a.ok THEN a ELSE reserve_loop(a.m, a.v, required_chunks))

reserve(m, v, n) ==
    reserve_loop(m, v, (n + v.chunk_capacity - 1) \div v.chunk_capacity)

\* the page_write_ptr calls that reach elements j .. count - 1 of a chunk for
\* their destructors, in ascending order (the range is halved to keep the
\* evaluation shallow)
RECURSIVE clear_touch(_, _, _, _)
clear_touch(m, page_idx, j, count) ==
    IF j >= count THEN m
    ELSE IF count - j = 1
    THEN get_write_ptr(m, page_idx, (j * V_SIZE) % SIZE_MOD).m
    ELSE Bind(j + (count - j) \div 2, LAMBDA mid :
           Bind(clear_touch(m, page_idx, j, mid), LAMBDA m1 :
             clear_touch(m1, page_idx, mid, count)))

\* the paged branch of clear(): chunks i .. chunk_count - 1
RECURSIVE clear_chunks(_, _, _)
clear_chunks(m, v, i) ==
    IF i >= v.chunk_count THEN VRes(m, [v EXCEPT !.chunk_count = 0], TRUE)
    ELSE IF i \notin ChunkIdx THEN VRes(m, v, FALSE)
    ELSE IF v.chunks[i].page_idx = -1 THEN clear_chunks(m, v, i + 1)
    ELSE Bind(clear_touch(m, v.chunks[i].page_idx, 0, v.chunks[i].count), LAMBDA m1 :
           clear_chunks(free_page(m1, v.chunks[i].page_idx, FALSE).m,
                        [v EXCEPT !.chunks[i] = EmptyChunk], i + 1))

\* clear(), which is also all the destructor does
clear(m, v) ==
    IF v.flat_mode
    THEN IF v.flat_page >= 0 /\ v.size > 0
         THEN Bind(small_write_ptr(m, v.flat_page, v.flat_offset).m, LAMBDA m1 :
                VRes(small_free(m1, v.flat_page, v.flat_offset).m,
                     [v EXCEPT !.flat_page = -1, !.flat_offset = 0, !.flat_capacity = 0,
                               !.size = 0], TRUE))
         ELSE VRes(m, [v EXCEPT !.size = 0], TRUE)
    ELSE Bind(clear_chunks(m, v, 0), LAMBDA c :
           VRes(c.m, [c.v EXCEPT !.size = 0], c.ok))

\* a.swap(b): <<a, b>> afterwards
swap(a, b) ==
    <<[a EXCEPT !.chunk_capacity = b.chunk_capacity, !.size = b.size,
                !.chunk_count = b.chunk_count, !.chunks = b.chunks],
      [b EXCEPT !.chunk_capacity = a.chunk_capacity, !.size = a.size,
                !.chunk_count = a.chunk_count, !.chunks = a.chunks]>>

\* ------------------------------------------------------------ state machine
M == [pages |-> pages, ram |-> ram, store |-> store, access_tick |-> access_tick,
      started |-> started, store_ok |-> store_ok, junk |-> junk,
      malloc_fails |-> malloc_fails, log |-> <<>>]

StaticPage == [allocated |-> FALSE, in_ram |-> FALSE, can_free_ram |-> FALSE,
               dirty |-> FALSE, zero_filled |-> FALSE, is_heap |-> FALSE,
               ram_addr |-> FALSE, swap_offset |-> 0, last_access |-> 0]

NoOp == [op |-> "init", idx |-> -1, off |-> 0, ret |-> FALSE, val |-> ZeroWord, log |-> <<>>]
Op(name, idx, off, ret, val, m) ==
    [op |-> name, idx |-> idx, off |-> off, ret |-> ret, val |-> val, log |-> m.log]

\* the static VMManager instance after its constructor ran, before begin()
Init ==
    /\ pages = [i \in PageIdx |-> StaticPage]
    /\ ram = [i \in PageIdx |-> ZeroPage]
    /\ store = [o \in {i * VM_PAGE_SIZE : i \in PageIdx} |-> ZeroPage]
    /\ access_tick = 0
    /\ started = FALSE
    /\ store_ok = TRUE
    /\ junk = JunkPage
    /\ malloc_fails = 0
    /\ hnd = [h \in Handles |-> NullHandle]
    /\ live = {}
    /\ wrote = [i \in PageIdx |-> ZeroPage]
    /\ vec = [v \in VecIds |-> NewVector]
    /\ refs = [v \in VecIds |-> <<>>]
    /\ last = NoOp

\* the ghost content of the pages after an operation that put new content into
\* the RAM buffers of the pages in S
Wrote(m, S) ==
    [p \in PageIdx |->
        IF ~m.pages[p].allocated THEN ZeroPage
        ELSE IF p \in S /\ m.pages[p].in_ram THEN m.ram[p]
        ELSE wrote[p]]

CommitAll(m, l, w, h, lv, vc, rf) ==
    /\ pages' = m.pages
    /\ ram' = m.ram
    /\ store' = m.store
    /\ access_tick' = m.access_tick
    /\ started' = m.started
    /\ last' = l
    /\ wrote' = w
    /\ hnd' = h
    /\ live' = lv
    /\ malloc_fails' = m.malloc_fails
    /\ vec' = vc
    /\ refs' = rf
    /\ UNCHANGED <<store_ok, junk>>

Commit(m, l, w, h, lv) == CommitAll(m, l, w, h, lv, vec, refs)

Running == started /\ access_tick < MaxTick

AllocOptionSet ==
    {[can_free_ram |-> c, zero_on_alloc |-> TRUE, reuse_swap_data |-> FALSE] : c \in BOOLEAN}
DataOffs == {0, VM_PAGE_SIZE}
HeapSizes == {5, 40, 250}
IdxInputs == PageIdx \cup {-1}

IsLive(p, off) == \E b \in live : b.page = p /\ b.off = off
Owned(b) == \E h \in Handles : hnd[h].page_idx = b.page /\ hnd[h].offset = b.off

Begin ==
    /\ ~started
    /\ \E r \in {begin(M)} :
       Commit(r.m, Op("begin", -1, 0, r.ret, ZeroWord, r.m), Wrote(r.m, {}),
              [h \in Handles |-> NullHandle], {})

End ==
    \E m \in {end(M)} :
       Commit(m, Op("end", -1, 0, TRUE, ZeroWord, m), Wrote(m, {}),
              IF started THEN [h \in Handles |-> NullHandle] ELSE hnd,
              IF started THEN {} ELSE live)

FlushAll ==
    /\ Running
    /\ \E m \in {flush_all(M)} :
       Commit(m, Op("flush_all", -1, 0, TRUE, ZeroWord, m), Wrote(m, {}), hnd, live)

AllocPage ==
    /\ Running
    /\ \E opts \in AllocOptionSet :
         \E r \in {alloc_page_ex(M, opts)} :
         Commit(r.m, Op("alloc_page", r.idx, 0, r.ret, ZeroWord, r.m),
                Wrote(r.m, {r.idx}), hnd, live)

\* free_page / page_free of a page its owner holds (never a heap page)
FreePage ==
    /\ Running
    /\ \E idx \in PageIdx, wipe \in BOOLEAN :
         /\ ~pages[idx].is_heap
         /\ \E r \in {free_page(M, idx, wipe)} :
            Commit(r.m, Op("free_page", idx, 0, r.ret, ZeroWord, r.m),
                   Wrote(r.m, {}), hnd, live)

\* swap_out(idx, false), or flush_page / page_flush (force)
SwapOut ==
    /\ Running
    /\ \E idx \in IdxInputs, force \in BOOLEAN :
         \E r \in {swap_out(M, idx, force)} :
         Commit(r.m, Op(IF force THEN "flush_page" ELSE "swap_out", idx, 0, r.ret, ZeroWord, r.m),
                Wrote(r.m, {}), hnd, live)

\* swap_in / prefetch_page / page_prefetch, as its callers use it: on a page
\* that is not resident
SwapIn ==
    /\ Running
    /\ \E idx \in IdxInputs :
         /\ valid_index(idx) => ~pages[idx].in_ram
         /\ \E r \in {swap_in(M, idx)} :
            Commit(r.m, Op("swap_in", idx, 0, r.ret, ZeroWord, r.m),
                   Wrote(r.m, {}), hnd, live)

\* get_read_ptr and a load through the returned pointer
ReadPtr ==
    /\ Running
    /\ \E idx \in PageIdx, off \in DataOffs :
         \E r \in {get_read_ptr(M, idx, off)} :
         Commit(r.m,
                Op("get_read_ptr", idx, off, r.ret,
                   IF r.ret THEN r.m.ram[idx][W(off)] ELSE ZeroWord, r.m),
                Wrote(r.m, {}), hnd, live)

\* get_write_ptr and a store of <<v, v>> through the returned pointer; on a heap
\* page only the payload of a live block is written
WritePtr ==
    /\ Running
    /\ \E idx \in PageIdx, off \in DataOffs \cup {b.off : b \in live}, v \in Vals :
         /\ pages[idx].is_heap => IsLive(idx, off)
         /\ ~pages[idx].is_heap => off \in DataOffs
         /\ \E r \in {get_write_ptr(M, idx, off)} :
            \E m \in {IF r.ret THEN [r.m EXCEPT !.ram[idx][W(off)] = <<v, v>>] ELSE r.m} :
            Commit(m, Op("get_write_ptr", idx, off, r.ret, <<v, v>>, m),
                   [Wrote(m, {}) EXCEPT ![idx] =
                       IF r.ret THEN [@ EXCEPT ![W(off)] = <<v, v>>] ELSE @],
                   hnd, live)

HeapAlloc ==
    /\ Running
    /\ Cardinality(live) < MaxLive
    /\ \E size \in HeapSizes :
         \E r \in {heap_alloc(M, size)} :
         Commit(r.m, Op("heap_alloc", r.page, r.off, r.ret, <<size, r.alloc_size>>, r.m),
                Wrote(r.m, {r.page}), hnd,
                IF r.ret
                THEN live \cup {[page |-> r.page, off |-> r.off, alloc_size |-> r.alloc_size]}
                ELSE live)

\* heap_free of a block no handle refers to
HeapFree ==
    /\ started
    /\ \E b \in live :
         /\ ~Owned(b)
         /\ \E r \in {heap_free(M, b.page, b.off)} :
            Commit(r.m, Op("heap_free", b.page, b.off, r.ret, ZeroWord, r.m),
                   Wrote(r.m, {b.page}), hnd, live \ {b})

\* *h (read) or *h = v (write) through handle h
Deref ==
    /\ Running
    /\ \E h \in Handles, write \in BOOLEAN, v \in Vals :
         /\ ~write => v = 1
         /\ \E r \in {deref(M, hnd[h], write, T_SIZE)} :
            \E m \in {IF r.ret /\ write
                      THEN [r.m EXCEPT !.ram[r.h.page_idx][W(r.h.offset)] = <<v, v>>]
                      ELSE r.m} :
            Commit(m,
                   Op(IF write THEN "deref_write" ELSE "deref_read", r.h.page_idx,
                      r.h.offset, r.ret,
                      IF r.ret THEN m.ram[r.h.page_idx][W(r.h.offset)] ELSE ZeroWord, m),
                   Wrote(m, IF r.h.page_idx = -1 THEN {} ELSE {r.h.page_idx}),
                   [hnd EXCEPT ![h] = r.h],
                   IF hnd[h].page_idx = -1 /\ r.h.page_idx # -1
                   THEN live \cup {[page |-> r.h.page_idx, off |-> r.h.offset,
                                    alloc_size |-> bh_size(m.ram[r.h.page_idx],
                                                           r.h.offset - BH_SIZE)]}
                   ELSE live)

\* h.destroy() on a handle whose T is, or is not, trivially destructible
Destroy ==
    /\ started
    /\ \E h \in Handles, nontrivial \in BOOLEAN :
         \E r \in {destroy(M, hnd[h], nontrivial)} :
         Commit(r.m, Op("destroy", hnd[h].page_idx, hnd[h].offset, r.freed, ZeroWord, r.m),
                Wrote(r.m, IF hnd[h].page_idx = -1 THEN {} ELSE {hnd[h].page_idx}),
                [hnd EXCEPT ![h] = r.h],
                {b \in live : ~(b.page = hnd[h].page_idx /\ b.off = hnd[h].offset)})

\* the block headers a page buffer c holds: those met walking the blocks from
\* the first one, each followed by the next at header + payload size
RECURSIVE BlockChain(_, _, _)
BlockChain(c, off, fuel) ==
    IF fuel = 0 \/ off < HH_SIZE \/ off + BH_SIZE > VM_PAGE_SIZE THEN {}
    ELSE {off} \cup BlockChain(c, off + BH_SIZE + bh_size(c, off), fuel - 1)

\* heap_free of a block whose header says it is free already: a second free
\* through a stale copy of the block's address
DoubleFree ==
    /\ Running
    /\ \E p \in PageIdx :
         /\ pages[p].allocated /\ pages[p].is_heap /\ ~pages[p].zero_filled
         /\ \E c \in {IF pages[p].in_ram THEN ram[p] ELSE store[pages[p].swap_offset]} :
            \E h \in BlockChain(c, HH_SIZE, NWords) :
              /\ bh_flags(c, h) % 2 = 1
              /\ \E r \in {heap_free(M, p, h + BH_SIZE)} :
                   Commit(r.m, Op("double_free", p, h + BH_SIZE, r.ret, ZeroWord, r.m),
                          Wrote(r.m, {p}), hnd, live)

\* h[n] (read) or h[n] = v (write); val = <<h, n, the word at the element>>
Index ==
    /\ Running
    /\ Cardinality(live) < MaxLive
    /\ \E h \in Handles, n \in {0, 1}, write \in BOOLEAN, v \in Vals :
         /\ ~write => v = 1
         /\ write => n = 0
         /\ \E r \in {index(M, hnd[h], n, write, T_SIZE)} :
            \E m \in {IF r.ret /\ write
                      THEN [r.m EXCEPT !.ram[r.h.page_idx][W(r.h.offset)] = <<v, v>>]
                      ELSE r.m} :
            Commit(m,
                   Op(IF write THEN "index_write" ELSE "index_read", r.h.page_idx,
                      r.h.offset, r.ret,
                      <<h, n, IF r.ret THEN m.ram[r.h.page_idx][W(r.h.offset)] ELSE ZeroWord>>,
                      m),
                   Wrote(m, IF r.h.page_idx = -1 THEN {} ELSE {r.h.page_idx}),
                   hnd,
                   IF hnd[h].page_idx = -1 /\ r.h.page_idx # -1
                   THEN live \cup {[page |-> r.h.page_idx, off |-> r.h.offset,
                                    alloc_size |-> bh_size(m.ram[r.h.page_idx],
                                                           r.h.offset - BH_SIZE)]}
                   ELSE live)

\* swap_out(idx, false) of a resident page: what an eviction does to it
Evict ==
    /\ Running
    /\ \E idx \in PageIdx :
         /\ pages[idx].in_ram
         /\ \E r \in {swap_out(M, idx, FALSE)} :
              Commit(r.m, Op("swap_out", idx, 0, r.ret, ZeroWord, r.m),
                     Wrote(r.m, {}), hnd, live)

\* the environment: the swap file starts or stops failing its reads and writes,
\* and what freshly malloc'd memory holds changes
StoreFault ==
    /\ started
    /\ store_ok' \in BOOLEAN
    /\ junk' \in {JunkPage, ZeroPage}
    /\ <<store_ok', junk'>> # <<store_ok, junk>>
    /\ UNCHANGED <<pages, ram, store, access_tick, started, malloc_fails, hnd, live, wrote,
                   vec, refs, last>>

\* the environment: the rest of the program takes memory, so that the next n
\* calls of malloc(page_size) return null
MemFault ==
    /\ started
    /\ malloc_fails = 0
    /\ malloc_fails' \in 1 .. VM_PAGE_COUNT
    /\ UNCHANGED <<pages, ram, store, access_tick, started, store_ok, junk, hnd, live, wrote,
                   vec, refs, last>>

\* the paging engine
Next ==
    \/ Begin
    \/ End
    \/ FlushAll
    \/ AllocPage
    \/ FreePage
    \/ SwapOut
    \/ SwapIn
    \/ ReadPtr
    \/ WritePtr

Spec == Init /\ [][Next]_vars

\* the small-block heap on top of the paging engine
NextHeap ==
    \/ Begin
    \/ HeapAlloc
    \/ HeapFree
    \/ Evict

SpecHeap == Init /\ [][NextHeap]_vars

\* VMPtr handles on top of the heap, next to pinned and evictable pages
NextPtr ==
    \/ Begin
    \/ AllocPage
    \/ Evict
    \/ Deref
    \/ Destroy

SpecPtr == Init /\ [][NextPtr]_vars

\* handles that are dereferenced, indexed and destroyed
NextIndex ==
    \/ Begin
    \/ Deref
    \/ Index
    \/ Destroy

SpecIndex == Init /\ [][NextIndex]_vars

\* the heap with blocks that are freed a second time
NextDouble ==
    \/ Begin
    \/ HeapAlloc
    \/ HeapFree
    \/ DoubleFree
    \/ Evict

SpecDouble == Init /\ [][NextDouble]_vars

\* the page table under every operation that writes descriptors, with an
\* allocator that can refuse
NextDesc ==
    \/ Begin
    \/ End
    \/ AllocPage
    \/ FreePage
    \/ SwapOut
    \/ SwapIn
    \/ MemFault

SpecDesc == Init /\ [][NextDesc]_vars

\* the paging engine over a swap file whose reads and writes can fail
NextIO ==
    \/ Begin
    \/ AllocPage
    \/ SwapOut
    \/ SwapIn
    \/ ReadPtr
    \/ WritePtr
    \/ StoreFault

SpecIO == Init /\ [][NextIO]_vars

\* element sizes of the handle types, and the element counts handles are moved by
ElemSizes == {T_SIZE, 3 * T_SIZE}
ArithInts == (0 - MaxStep) .. MaxStep
\* the element counts of h += n: single steps and the longest step
Steps == {0 - MaxStep, -1, 1, MaxStep}

\* h += n on the first handle, for an element type of size s
Advance ==
    \E n \in Steps, s \in ElemSizes :
       \E r \in {operator_plus(hnd[1], n, s)} :
          /\ hnd' = [hnd EXCEPT ![1] = IF r.ok THEN r.h ELSE @]
          /\ last' = [op |-> "advance", idx |-> r.h.page_idx, off |-> r.h.offset,
                      ret |-> r.ok, val |-> <<n, s>>, log |-> <<>>]
          /\ UNCHANGED <<pages, ram, store, access_tick, started, store_ok, junk,
                         malloc_fails, live, wrote, vec, refs>>

\* small_realloc_move of a live block that no handle refers to; val = <<copied,
\* source resident, destination resident, new_min_size, copy_bytes, old_page,
\* old_off>>
ReallocMove ==
    /\ Running
    /\ \E b \in live, size \in HeapSizes, copy_bytes \in {0, HEAP_ALIGN},
          ub \in {"stale", "junk"} :
         /\ ~Owned(b)
         /\ \E r \in {small_realloc_move(M, b.page, b.off, size, copy_bytes, ub)} :
            Commit(r.m,
                   Op("realloc_move", r.page, r.off, r.ret,
                      <<r.copied, r.src_ok, r.dst_ok, size, copy_bytes, b.page, b.off>>,
                      r.m),
                   Wrote(r.m, IF r.ret THEN {b.page, r.page} ELSE {b.page}), hnd,
                   IF r.ret
                   THEN (live \ {b}) \cup
                        {[page |-> r.page, off |-> r.off, alloc_size |-> r.alloc_size]}
                   ELSE live)

\* heap blocks that are moved to new blocks, next to pinned and evictable pages
NextMove ==
    \/ Begin
    \/ AllocPage
    \/ HeapAlloc
    \/ ReallocMove

SpecMove == Init /\ [][NextMove]_vars

\* h = make_vm<T>(args...) for a handle h that is Unbound;
\* val = <<1 if the constructor takes a pinned page, 1 if it throws>>
MakeVm ==
    /\ Running
    /\ \E h \in Handles, ctor \in Ctors :
         /\ hnd[h].page_idx = -1
         /\ \E r \in {make_vm(M, ctor)} :
            Commit(r.m,
                   Op("make_vm", r.h.page_idx, r.h.offset, r.ret,
                      <<IF ctor.pins THEN 1 ELSE 0, IF ctor.throws THEN 1 ELSE 0>>, r.m),
                   Wrote(r.m, IF r.ret THEN {r.h.page_idx} ELSE {}),
                   IF r.ret THEN [hnd EXCEPT ![h] = r.h] ELSE hnd,
                   IF r.ret
                   THEN live \cup {[page |-> r.h.page_idx, off |-> r.h.offset,
                                    alloc_size |-> bh_size(r.m.ram[r.h.page_idx],
                                                           r.h.offset - BH_SIZE)]}
                   ELSE live)

\* objects made by make_vm, next to pinned and evictable pages
NextMake ==
    \/ Begin
    \/ AllocPage
    \/ MakeVm

SpecMake == Init /\ [][NextMake]_vars

\* page_prefetch / prefetch_page of any page, resident or not
Prefetch ==
    /\ Running
    /\ \E idx \in PageIdx :
         \E r \in {swap_in(M, idx)} :
            Commit(r.m, Op("page_prefetch", idx, 0, r.ret, ZeroWord, r.m),
                   Wrote(r.m, {}), hnd, live)

\* pages that are written and prefetched
NextPrefetch ==
    \/ Begin
    \/ AllocPage
    \/ WritePtr
    \/ Prefetch

SpecPrefetch == Init /\ [][NextPrefetch]_vars

\* page allocation and swap-in with an allocator that can refuse
NextRam ==
    \/ Begin
    \/ AllocPage
    \/ SwapIn
    \/ MemFault

SpecRam == Init /\ [][NextRam]_vars

\* the small-block heap next to pages of the user, which may pin the RAM
NextPack ==
    \/ Begin
    \/ AllocPage
    \/ HeapAlloc
    \/ HeapFree

SpecPack == Init /\ [][NextPack]_vars

\* the program is running and has ticks left for one more vector operation
VRunning == started /\ last.op # "trap" /\ access_tick < MaxVTick

UbReads == {"stale", "junk"}
NullStores == {"trap", "lost"}
ReserveSizes == {2, 8}

\* the state after an operation on vec[v] with result r; rf is the reference
\* sequence of vec[v] afterwards
VCommit(v, r, name, ret, val, rf) ==
    CommitAll(r.m, Op(IF r.ok THEN name ELSE "trap", v, 0, ret, val, r.m),
              Wrote(r.m, {}), hnd, live, [vec EXCEPT ![v] = r.v], [refs EXCEPT ![v] = rf])

\* vec[1].push_back(x); the reference sequence gets x appended
PushBack ==
    /\ VRunning
    /\ Len(refs[1]) < MaxElems
    /\ \E x \in Vals, ub \in UbReads, nullw \in NullStores :
         \E r \in {push_back(M, vec[1], x, ub, nullw)} :
           VCommit(1, r, "push_back", r.ok, <<x, 0>>, Append(refs[1], x))

\* vec[1].push_back(1) and vec[2].push_back(2) of two short vectors
PushA ==
    /\ VRunning
    /\ Len(refs[1]) < MaxOther
    /\ \E ub \in UbReads, nullw \in NullStores :
         \E r \in {push_back(M, vec[1], 1, ub, nullw)} :
           VCommit(1, r, "push_back", r.ok, <<1, 0>>, Append(refs[1], 1))

PushB ==
    /\ VRunning
    /\ Len(refs[2]) < MaxOther
    /\ \E ub \in UbReads, nullw \in NullStores :
         \E r \in {push_back(M, vec[2], 2, ub, nullw)} :
           VCommit(2, r, "push_back", r.ok, <<2, 0>>, Append(refs[2], 2))

\* vec[1].pop_back(); the reference sequence loses its last element
PopBack ==
    /\ VRunning
    /\ \E r \in {pop_back(M, vec[1])} :
         VCommit(1, r, "pop_back", r.ret, ZeroWord,
                 IF r.ret THEN SubSeq(refs[1], 1, Len(refs[1]) - 1) ELSE refs[1])

\* vec[1].reserve(n); the reference sequence stays
Reserve ==
    /\ VRunning
    /\ \E n \in ReserveSizes :
         \E r \in {reserve(M, vec[1], n)} :
           VCommit(1, r, "reserve", r.ok, <<n, 0>>, refs[1])

\* vec[1].clear(), or the destructor of vec[1]; the reference sequence is empty
Clear ==
    /\ VRunning
    /\ \E r \in {clear(M, vec[1])} :
         VCommit(1, r, "clear", r.ok, ZeroWord, <<>>)

\* vec[1].swap(vec[2]); the reference sequences change places
VSwap ==
    /\ VRunning
    /\ \E r \in {swap(vec[1], vec[2])} :
         CommitAll(M, Op("swap", 1, 0, TRUE, ZeroWord, M), Wrote(M, {}), hnd, live,
                   [vec EXCEPT ![1] = r[1], ![2] = r[2]],
                   [refs EXCEPT ![1] = refs[2], ![2] = refs[1]])

\* one vector under push_back and pop_back
NextVec ==
    \/ Begin
    \/ PushBack
    \/ PopBack

SpecVec == Init /\ [][NextVec]_vars

\* one vector under push_back and reserve
NextReserve ==
    \/ Begin
    \/ PushBack
    \/ Reserve

SpecReserve == Init /\ [][NextReserve]_vars

\* one short vector that is filled, shrunk, reserved for and cleared
NextClear ==
    \/ Begin
    \/ PushA
    \/ PopBack
    \/ Reserve
    \/ Clear

SpecClear == Init /\ [][NextClear]_vars

\* two vectors that are filled and swapped
NextSwap ==
    \/ Begin
    \/ PushA
    \/ PushB
    \/ VSwap

SpecSwap == Init /\ [][NextSwap]_vars

\* handle arithmetic, which needs no started manager
NextArith ==
    \/ Advance

SpecArith == Init /\ [][NextArith]_vars

\* h.get() on the first handle, taken as a VMPtr<T> with sizeof(T) = s, for
\* writing or for reading; val = <<s, 1 if the handle was Bound, else 0>>
Get ==
    /\ Running
    /\ \E s \in ElemSizes, write \in BOOLEAN :
         \E r \in {deref(M, hnd[1], write, s)} :
            Commit(r.m,
                   Op("get", r.h.page_idx, r.h.offset, r.ret,
                      <<s, IF hnd[1].page_idx = -1 THEN 0 ELSE 1>>, r.m),
                   Wrote(r.m, {}),
                   [hnd EXCEPT ![1] = r.h],
                   IF hnd[1].page_idx = -1 /\ r.h.page_idx # -1
                   THEN live \cup {[page |-> r.h.page_idx, off |-> r.h.offset,
                                    alloc_size |-> bh_size(r.m.ram[r.h.page_idx],
                                                           r.h.offset - BH_SIZE)]}
                   ELSE live)

\* handles that are moved by arithmetic and then dereferenced
NextGet ==
    \/ Begin
    \/ AllocPage
    \/ Advance
    \/ Get

SpecGet == Init /\ [][NextGet]_vars

\* ------------------------------------------------------------ properties
\* the logical content of page p: its buffer when resident, else its swap region
Content(p) == IF pages[p].in_ram THEN ram[p] ELSE store[pages[p].swap_offset]

HasEvent(e) == \E k \in 1 .. Len(last.log) : last.log[k].ev = e
EvictEvents == {k \in 1 .. Len(last.log) : last.log[k].ev = "evict"}
Eligible(s, q) == s[q].allocated /\ s[q].in_ram /\ s[q].ram_addr /\ s[q].can_free_ram

\* C1: the content of every allocated page, whether it sits in its buffer or was
\* evicted to its swap region, is what was last written to it through the write
\* accessor, and a load through the read accessor returns the word last written,
\* whatever happened to the other pages in between.
C1_RoundTrip ==
    /\ \A p \in PageIdx : pages[p].allocated => Content(p) = wrote[p]
    /\ (last.op = "get_read_ptr" /\ last.ret) => last.val = wrote[last.idx][W(last.off)]

\* a read that had to swap the page in from the store returns a written value
C1_Witness ==
    /\ last.op = "get_read_ptr" /\ last.ret
    /\ HasEvent("store_read")
    /\ last.val \in {<<v, v>> : v \in Vals}

\* C2: every eviction victim is allocated, resident and evictable, and its
\* last_access is the smallest among such pages at the moment of the choice,
\* the lower index winning a tie.
C2_VictimIsLRU ==
    \A k \in EvictEvents :
       LET s == last.log[k].snap
           v == last.log[k].idx
       IN /\ Eligible(s, v)
          /\ \A q \in PageIdx :
                Eligible(s, q) =>
                   \/ s[v].last_access < s[q].last_access
                   \/ (s[v].last_access = s[q].last_access /\ v <= q)

\* an eviction that passed over an eligible page of lower index
C2_Witness ==
    \E k \in EvictEvents :
       \E q \in PageIdx : q < last.log[k].idx /\ Eligible(last.log[k].snap, q)

ResidentEvictable ==
    \E p \in PageIdx :
       pages[p].allocated /\ pages[p].in_ram /\ pages[p].ram_addr /\ pages[p].can_free_ram
AnyEvictable == \E p \in PageIdx : pages[p].allocated /\ pages[p].can_free_ram
\* the step is an alloc_page with a free slot, or a swap_in of an allocated page
PressureCall ==
    \/ last'.op = "alloc_page" /\ \E i \in PageIdx : ~pages[i].allocated
    \/ last'.op = "swap_in" /\ valid_index(last'.idx) /\ pages[last'.idx].allocated

\* C3: an alloc_page with a free slot, or a swap_in of an allocated page, succeeds
\* whenever some allocated page that is resident has can_free_ram = true.
C3_SuccessUnderPressure == [][(PressureCall /\ ResidentEvictable) => last'.ret]_vars

\* C3 as stated: success whenever some allocated page has can_free_ram = true
C3_AsStated == [][(PressureCall /\ AnyEvictable) => last'.ret]_vars

\* an allocation or swap-in that succeeded by evicting a page
C3_Witness ==
    /\ last.op \in {"alloc_page", "swap_in"} /\ last.ret
    /\ HasEvent("evict")

\* C7: a failed store write makes swap_out return false and leaves the page
\* dirty and resident; a failed store read makes swap_in return false.
C7_FailureSurfaced ==
    /\ (last.op \in {"swap_out", "flush_page"} /\ HasEvent("store_write_failed"))
          => (~last.ret /\ pages[last.idx].dirty /\ pages[last.idx].in_ram)
    /\ (last.op = "swap_in" /\ HasEvent("store_read_failed")) => ~last.ret

\* C8: a step of the read accessor turns no page's dirty flag from false to true;
\* a step of the write accessor that returns a pointer leaves its page dirty.
C8_ReadWriteSeparation ==
    [][/\ last'.op = "get_read_ptr" =>
             \A p \in PageIdx : pages'[p].dirty => pages[p].dirty
       /\ (last'.op = "get_write_ptr" /\ last'.ret) => pages'[last'.idx].dirty]_vars

\* a write pointer to a page that was swapped in clean for it
C8_Witness ==
    /\ last.op = "get_write_ptr" /\ last.ret
    /\ HasEvent("store_read")
    /\ pages[last.idx].dirty

\* C9: an allocated page with can_free_ram = false has its RAM buffer in every
\* state, and no eviction picks such a page.
C9_PinnedResident ==
    /\ \A p \in PageIdx :
          (pages[p].allocated /\ ~pages[p].can_free_ram)
             => (pages[p].in_ram /\ pages[p].ram_addr)
    /\ \A k \in EvictEvents : last.log[k].snap[last.log[k].idx].can_free_ram

\* a forced swap_out wrote a pinned page to the store and left it resident
C9_Witness ==
    /\ last.op = "flush_page" /\ last.ret
    /\ HasEvent("store_write")
    /\ pages[last.idx].allocated /\ ~pages[last.idx].can_free_ram
    /\ pages[last.idx].in_ram

\* the block headers of page buffer c that are linked on its free list
RECURSIVE FreeChain(_, _, _)
FreeChain(c, off, fuel) ==
    IF fuel = 0 \/ off < HH_SIZE \/ off + BH_SIZE > VM_PAGE_SIZE THEN {}
    ELSE {off} \cup FreeChain(c, bh_next_free(c, off), fuel - 1)

HeaderOffs(c) == BlockChain(c, HH_SIZE, NWords) \cup FreeChain(c, hh_first_free(c), NWords)
HeapPages == {p \in PageIdx : pages[p].allocated /\ pages[p].is_heap}
LiveOn(p) == {b \in live : b.page = p}
\* the byte ranges [a1, a1 + l1) and [a2, a2 + l2) share no byte
Disjoint(a1, l1, a2, l2) == a1 + l1 <= a2 \/ a2 + l2 <= a1

C4_State ==
    \A p \in HeapPages :
       /\ \A b1, b2 \in LiveOn(p) :
             b1 # b2 => Disjoint(b1.off, b1.alloc_size, b2.off, b2.alloc_size)
       /\ \A b \in LiveOn(p) :
             /\ Disjoint(b.off, b.alloc_size, 0, HH_SIZE)
             /\ \A h \in HeaderOffs(Content(p)) \cup {x.off - BH_SIZE : x \in LiveOn(p)} :
                   Disjoint(b.off, b.alloc_size, h, BH_SIZE)
C4_Fresh == (last'.op = "heap_alloc" /\ last'.ret) => ~IsLive(last'.idx, last'.off)

\* C4: in every state the payloads of the live blocks of a heap page overlap
\* neither each other, nor the heap header, nor any block header of the page, and
\* no heap_alloc hands out a block that is still live.
C4_NoOverlap == []C4_State /\ [][C4_Fresh]_vars

\* a freed block handed out again, in front of another live block of its page
C4_Witness ==
    /\ last.op = "heap_alloc" /\ last.ret
    /\ \E b1, b2 \in LiveOn(last.idx) :
          b1.off = last.off /\ b1.off < b2.off /\ b1.alloc_size > 0

\* C5: a successful heap_alloc(size) returns offset + size <= page_size, and every
\* block of every heap page ends inside the page.
C5_Containment ==
    /\ (last.op = "heap_alloc" /\ last.ret) => last.off + last.val[1] <= VM_PAGE_SIZE
    /\ \A p \in HeapPages :
          \A h \in HeaderOffs(Content(p)) :
             h + BH_SIZE + bh_size(Content(p), h) <= VM_PAGE_SIZE

\* C6: heap_alloc fails for every size above the usable capacity of a page, and
\* a successful heap_alloc returns a payload of at least the requested size.
C6_OversizeFails ==
    /\ (last.op = "heap_alloc" /\ last.val[1] > heap_max_payload) => ~last.ret
    /\ (last.op = "heap_alloc" /\ last.ret) => last.val[2] >= last.val[1]

\* C10: after destroy() on a Bound handle no handle designates the block, and the
\* block is flagged free and linked on its page's free list.
C10_DestroyFrees ==
    (last.op = "destroy" /\ last.idx >= 0) =>
       /\ \A h \in Handles : hnd[h] # [page_idx |-> last.idx, offset |-> last.off]
       /\ bh_flags(Content(last.idx), last.off - BH_SIZE) % 2 = 1
       /\ (last.off - BH_SIZE) \in
             FreeChain(Content(last.idx), hh_first_free(Content(last.idx)), NWords)

\* C11: a step of destroy() on an Unbound handle leaves the handles, the page
\* table, the buffers, the store, the tick and the live blocks as they were, so a
\* second destroy() after a first adds nothing to it.
C11_DestroyIdempotent ==
    [][(last'.op = "destroy" /\ last'.idx = -1) =>
          UNCHANGED <<pages, ram, store, access_tick, started, hnd, live>>]_vars

\* destroy() on an Unbound handle after an earlier destroy() emptied a heap page
C11_Witness ==
    /\ last.op = "destroy" /\ last.idx = -1 /\ ~last.ret
    /\ \E p \in HeapPages : LiveOn(p) = {}

\* the payloads <<page, offset>> of the blocks the heap pages hold as used
UsedSet ==
    UNION {{<<p, h + BH_SIZE>> :
              h \in {x \in BlockChain(Content(p), HH_SIZE, NWords) :
                       bh_flags(Content(p), x) % 2 = 0}} : p \in HeapPages}
DerefStep == last'.op \in {"deref_read", "deref_write"}
NewlyBound == {h \in Handles : hnd[h].page_idx = -1 /\ hnd'[h].page_idx # -1}

\* C12: a dereference never changes a Bound handle and allocates nothing for it;
\* a dereference that binds an Unbound handle turns exactly one block, the one
\* the handle then designates, from free to used.
C12_LazyBindOnce ==
    [][DerefStep =>
          /\ \A h \in Handles : hnd[h].page_idx # -1 => hnd'[h] = hnd[h]
          /\ Cardinality(NewlyBound) <= 1
          /\ \A h \in NewlyBound : <<hnd'[h].page_idx, hnd'[h].offset>> \notin UsedSet
          /\ UsedSet' = UsedSet \cup
                          {<<hnd'[h].page_idx, hnd'[h].offset>> : h \in NewlyBound}]_vars

\* a read through a handle returns what an earlier dereference stored in its block
C12_Witness ==
    /\ last.op = "deref_read" /\ last.ret
    /\ last.val \in {<<v, v>> : v \in Vals}
    /\ \E h \in Handles : hnd[h] = [page_idx |-> last.idx, offset |-> last.off]

\* (p + m) + n and (p + n) - n, step by step: the second step is taken only
\* when the first did not throw
PlusPlus(hv, m, n, s) ==
    IF operator_plus(hv, m, s).ok THEN operator_plus(operator_plus(hv, m, s).h, n, s)
    ELSE operator_plus(hv, m, s)
PlusMinus(hv, n, s) ==
    IF operator_plus(hv, n, s).ok THEN operator_minus(operator_plus(hv, n, s).h, n, s)
    ELSE operator_plus(hv, n, s)
ValidDest(hv, n, s) == operator_plus(hv, n, s).ok /\ valid(operator_plus(hv, n, s).h, s)
Assoc(hv, m, n, s) ==
    /\ PlusPlus(hv, m, n, s).ok
    /\ operator_plus(hv, m + n, s).ok
    /\ PlusPlus(hv, m, n, s).h = operator_plus(hv, m + n, s).h
Inverse(hv, n, s) ==
    /\ PlusMinus(hv, n, s).ok
    /\ PlusMinus(hv, n, s).h = hv

\* C13: for a valid handle p, element size s and integers m, n: when p + m is
\* valid, (p + m) + n does not throw and equals p + (m + n); when p + n is valid,
\* (p + n) - n does not throw and equals p.
C13_ArithConsistent ==
    \A h \in Handles, s \in ElemSizes, m \in ArithInts, n \in ArithInts :
       valid(hnd[h], s) =>
          /\ ValidDest(hnd[h], m, s) => Assoc(hnd[h], m, n, s)
          /\ ValidDest(hnd[h], n, s) => Inverse(hnd[h], n, s)

\* C13 as stated: the same for every m and n, whatever p + m and p + n are
C13_AsStated ==
    \A h \in Handles, s \in ElemSizes, m \in ArithInts, n \in ArithInts :
       valid(hnd[h], s) => Assoc(hnd[h], m, n, s) /\ Inverse(hnd[h], n, s)

\* a handle was moved backwards across a page boundary to a valid position
C13_Witness ==
    /\ last.op = "advance" /\ last.ret
    /\ last.val[1] < 0
    /\ last.idx >= 0 /\ valid(hnd[1], last.val[2])
    /\ hnd[1] = [page_idx |-> last.idx, offset |-> last.off]
    /\ last.off - last.val[1] * last.val[2] >= VM_PAGE_SIZE

\* C14: every payload offset returned by a successful heap_alloc is a multiple of
\* HEAP_ALIGN, and so is the offset of every block header of every heap page.
C14_Aligned ==
    /\ (last.op = "heap_alloc" /\ last.ret) => last.off % HEAP_ALIGN = 0
    /\ \A b \in live : b.off % HEAP_ALIGN = 0
    /\ \A p \in HeapPages : \A h \in HeaderOffs(Content(p)) : h % HEAP_ALIGN = 0

\* a request that is not a multiple of HEAP_ALIGN was served behind another block
C14_Witness ==
    /\ last.op = "heap_alloc" /\ last.ret
    /\ last.val[1] % HEAP_ALIGN # 0
    /\ last.off > HH_SIZE + BH_SIZE
    /\ \E b \in LiveOn(last.idx) : b.off < last.off /\ b.alloc_size > 0

\* C15: whenever small_realloc_move copies, the page the bytes are read from and
\* the page they are written to both hold their RAM buffer at that moment.
C15_CopyResident ==
    (last.op = "realloc_move" /\ last.val[1]) => (last.val[2] /\ last.val[3])

\* C16: dereferencing a Bound handle (page, offset) of element size s leaves the
\* handle as it was, and yields an address only if the page index is in range,
\* the page is allocated, it holds its RAM buffer afterwards, and
\* offset + s <= page_size; otherwise it throws.
C16_DerefChecked ==
    [][(last'.op = "get" /\ hnd[1].page_idx # -1) =>
          /\ hnd' = hnd
          /\ last'.ret =>
                /\ valid_index(hnd[1].page_idx)
                /\ pages[hnd[1].page_idx].allocated
                /\ pages'[hnd[1].page_idx].allocated
                /\ pages'[hnd[1].page_idx].in_ram /\ pages'[hnd[1].page_idx].ram_addr
                /\ hnd[1].offset + last'.val[1] <= VM_PAGE_SIZE]_vars

\* a Bound handle moved by arithmetic yielded an address on a page that had to
\* be loaded for it
C16_Witness ==
    /\ last.op = "get" /\ last.ret /\ last.val[2] = 1
    /\ hnd[1] = [page_idx |-> last.idx, offset |-> last.off]
    /\ HasEvent("malloc")
    /\ \A b \in live : ~(b.page = last.idx /\ b.off = last.off)

\* C17: when make_vm fails, the used blocks of the heap pages are those that were
\* used before the call.
C17_NoLeak ==
    [][(last'.op = "make_vm" /\ ~last'.ret) => UsedSet' = UsedSet]_vars

\* the same for constructors that leave the manager alone
C17_PlainCtor ==
    [][(last'.op = "make_vm" /\ ~last'.ret /\ last'.val[1] = 0) => UsedSet' = UsedSet]_vars

Allocated == {p \in PageIdx : pages[p].allocated}

\* C18: immediately after flush_all() the same pages are allocated as before, and
\* for each of them the store region at its swap_offset holds the content the
\* page had before the call, which is still its content, and it is not dirty.
C18_FlushPersists ==
    [][last'.op = "flush_all" =>
          /\ Allocated' = Allocated
          /\ \A p \in Allocated :
                /\ store'[pages'[p].swap_offset] = Content(p)
                /\ Content(p)' = Content(p)
                /\ ~pages'[p].dirty]_vars

\* flush_all has written the data of a pinned page, which no eviction writes
C18_Witness ==
    /\ last.op = "flush_all"
    /\ \E p \in Allocated :
          /\ pages[p].in_ram /\ ~pages[p].can_free_ram
          /\ ram[p] # ZeroPage
          /\ store[pages[p].swap_offset] = ram[p]

\* C19: after end() no page is allocated or resident, no page holds a RAM buffer,
\* and the manager is not started; end() on a manager that is not started leaves
\* the page table, the buffers, the store and the tick counter as they were.
C19_EndReleases ==
    [][last'.op = "end" =>
          /\ ~started'
          /\ \A p \in PageIdx :
                ~pages'[p].allocated /\ ~pages'[p].in_ram /\ ~pages'[p].ram_addr
          /\ ~started => UNCHANGED <<pages, ram, store, access_tick, started, hnd, live>>]_vars

\* end() has shut down a manager that held the dirty buffer of a pinned page
C19_Witness ==
    /\ last.op = "end" /\ ~started
    /\ \E p \in PageIdx, k \in 1 .. Len(last.log) :
          /\ ~pages[p].can_free_ram
          /\ last.log[k].ev = "store_write"
          /\ last.log[k].idx = pages[p].swap_offset
    /\ \A p \in PageIdx : ~pages[p].ram_addr

SwapOffsets == [i \in PageIdx |-> pages[i].swap_offset]
RegionsFixed ==
    /\ \A i \in PageIdx : pages[i].swap_offset = i * VM_PAGE_SIZE
    /\ \A i, j \in PageIdx :
          i # j => Disjoint(pages[i].swap_offset, VM_PAGE_SIZE,
                            pages[j].swap_offset, VM_PAGE_SIZE)

\* C20: a successful begin() sets swap_offset = i * page_size for every page i, no
\* other operation writes swap_offset, and from then on the store regions of
\* distinct pages do not overlap.
C20_RegionsFixed ==
    [][/\ (last'.op = "begin" /\ last'.ret) => RegionsFixed'
       /\ last'.op # "begin" => SwapOffsets' = SwapOffsets
       /\ started' => RegionsFixed'
       /\ RegionsFixed => RegionsFixed']_vars

\* a page was written to its region while the region of another allocated page
\* still holds the zeros of begin()
C20_Witness ==
    /\ last.op = "swap_out" /\ last.ret /\ valid_index(last.idx)
    /\ store[pages[last.idx].swap_offset] # ZeroPage
    /\ \E q \in Allocated : q # last.idx /\ store[pages[q].swap_offset] = ZeroPage
    /\ RegionsFixed

\* the logical content of page p after the step
ContentNext(p) == IF pages'[p].in_ram THEN ram'[p] ELSE store'[pages'[p].swap_offset]

\* the header of the block with payload offset off on page p says used
BlockUsed(c, off) == bh_flags(c, off - BH_SIZE) % 2 = 0
\* word k of the payload at (p, off)
PayloadWord(c, off, k) == c[W(off) + k]

\* C24: when small_realloc_move succeeds, the first min(copy_bytes, new_alloc_size)
\* bytes of the new payload are those the old payload held before the call, the
\* old block is free, and the new block is used with a recorded size of at least
\* new_min_size; when it fails, the old block is still used and holds what it held.
C24_MoveResult ==
    [][last'.op = "realloc_move" =>
          \E size \in {last'.val[4]}, copy_bytes \in {last'.val[5]},
             op \in {last'.val[6]}, oo \in {last'.val[7]} :
             IF last'.ret
             THEN /\ \A k \in 0 .. (Min(copy_bytes,
                                        bh_size(ContentNext(last'.idx), last'.off - BH_SIZE))
                                    \div HEAP_ALIGN) - 1 :
                        PayloadWord(ContentNext(last'.idx), last'.off, k)
                           = PayloadWord(Content(op), oo, k)
                  /\ ~BlockUsed(ContentNext(op), oo)
                  /\ BlockUsed(ContentNext(last'.idx), last'.off)
                  /\ bh_size(ContentNext(last'.idx), last'.off - BH_SIZE) >= size
             ELSE /\ BlockUsed(ContentNext(op), oo)
                  /\ PayloadWord(ContentNext(op), oo, 0) = PayloadWord(Content(op), oo, 0)]_vars

\* the allocation attempts (idx = 1: malloc returned a buffer) and the evictions
\* of the last operation, in the order they were made
IsAcq(e) == e.ev \in {"malloc", "evict"}
AcqLog == SelectSeq(last.log, IsAcq)
Acquired == last.op \in {"alloc_page", "swap_in"} /\ Len(AcqLog) > 0

\* C25: an acquisition of a RAM buffer makes at most page_count allocation
\* attempts, every eviction is followed by another attempt, and the acquisition
\* ends with a successful attempt when it succeeds, and with a failed attempt
\* after which nothing could be evicted when it fails.
C25_RetryAfterEviction ==
    Acquired =>
       /\ Cardinality({k \in 1 .. Len(AcqLog) : AcqLog[k].ev = "malloc"}) <= VM_PAGE_COUNT
       /\ \A k \in 1 .. Len(AcqLog) :
             AcqLog[k].ev = "evict" => (k < Len(AcqLog) /\ AcqLog[k + 1].ev = "malloc")
       /\ AcqLog[Len(AcqLog)].ev = "malloc"
       /\ AcqLog[Len(AcqLog)].idx = (IF last.ret THEN 1 ELSE 0)
       /\ \A k \in 1 .. Len(AcqLog) - 1 :
             AcqLog[k].ev = "malloc" => (AcqLog[k].idx = 0 /\ AcqLog[k + 1].ev = "evict")
       /\ ~last.ret => \A q \in PageIdx : ~Eligible(pages, q)

\* an acquisition made page_count attempts with an eviction after each but the last
C25_Witness ==
    /\ Acquired
    /\ Cardinality({k \in 1 .. Len(AcqLog) : AcqLog[k].ev = "malloc"}) = VM_PAGE_COUNT
    /\ Cardinality({k \in 1 .. Len(AcqLog) : AcqLog[k].ev = "evict"}) = VM_PAGE_COUNT - 1

\* C26: swap_in (page_prefetch / prefetch_page) of a page that is resident leaves
\* the content of its RAM buffer and its dirty flag as they were.
C26_ResidentNotReloaded ==
    [][(last'.op = "page_prefetch" /\ pages[last'.idx].allocated
          /\ pages[last'.idx].in_ram) =>
          /\ ram'[last'.idx] = ram[last'.idx]
          /\ pages'[last'.idx].dirty = pages[last'.idx].dirty]_vars

\* the operations that touch the content of page last.idx
Touches ==
    {"alloc_page", "swap_in", "page_prefetch", "get_read_ptr", "get_write_ptr",
     "heap_alloc", "heap_free"}

\* C27: between initializations no page's last_access decreases, and an operation
\* that touches the content of a page leaves it with a last_access greater than
\* that of every other allocated page.
C27_LastAccessTracks ==
    [][/\ last'.op # "begin" =>
             \A p \in PageIdx : pages'[p].last_access >= pages[p].last_access
       /\ (last'.op \in Touches /\ last'.ret /\ valid_index(last'.idx)) =>
             \A q \in PageIdx :
                (q # last'.idx /\ pages'[q].allocated) =>
                   pages'[last'.idx].last_access > pages'[q].last_access]_vars

\* (page + floor((off + n*s) / P), (off + n*s) mod P)
FloorAdvance(hv, n, s) ==
    [page_idx |-> hv.page_idx + ((hv.offset + n * s) \div VM_PAGE_SIZE),
     offset |-> (hv.offset + n * s) % VM_PAGE_SIZE]
AdvancesByFloor(hv, n, s) ==
    /\ operator_plus(hv, n, s).ok
    /\ operator_plus(hv, n, s).h = FloorAdvance(hv, n, s)
    /\ operator_plus(hv, n, s).h.offset >= 0
    /\ operator_plus(hv, n, s).h.offset < VM_PAGE_SIZE

\* C28: for a valid handle p = (page, off), element size s and integer n, p + n
\* is (page + floor((off + n*s) / P), (off + n*s) mod P), with an offset in 0 .. P-1.
C28_FloorDivision ==
    \A h \in Handles, s \in ElemSizes, n \in ArithInts :
       valid(hnd[h], s) => AdvancesByFloor(hnd[h], n, s)

\* C28 as stated: the same for every handle with 0 <= off < P
C28_AsStated ==
    \A h \in Handles, s \in ElemSizes, n \in ArithInts :
       (hnd[h].offset >= 0 /\ hnd[h].offset < VM_PAGE_SIZE) =>
          AdvancesByFloor(hnd[h], n, s)

\* a handle at (k, 0) was advanced by P/s elements to (k + 1, 0)
C28_Witness ==
    /\ last.op = "advance" /\ last.ret
    /\ last.val[1] * last.val[2] = VM_PAGE_SIZE
    /\ hnd[1] = [page_idx |-> last.idx, offset |-> 0]
    /\ last.idx >= 1 /\ valid_index(last.idx)

\* the free list of page buffer c as the sequence of block-header offsets it links
RECURSIVE FreeSeq(_, _, _)
FreeSeq(c, off, fuel) ==
    IF fuel = 0 \/ off < HH_SIZE \/ off + BH_SIZE > VM_PAGE_SIZE THEN <<>>
    ELSE <<off>> \o FreeSeq(c, bh_next_free(c, off), fuel - 1)

FreeList(c) == FreeSeq(c, hh_first_free(c), NWords)
\* a heap page as ensure_heap_header initialises it: one free block of all the payload
FreshHeap ==
    set_hh(set_bh([ZeroPage EXCEPT ![0] = <<HEAP_MAGIC, HEAP_VERSION>>],
                  HH_SIZE, heap_max_payload, 0, 1), HH_SIZE, heap_max_payload)
\* the heap of page p as heap_alloc finds it in the state before the call
PreHeap(p) ==
    IF pages[p].allocated /\ pages[p].is_heap /\ ~pages[p].zero_filled
    THEN Content(p) ELSE FreshHeap
\* the request rounded up to the next multiple of 8
RoundUp8(size) == ((size + HEAP_ALIGN - 1) \div HEAP_ALIGN) * HEAP_ALIGN
\* sequence fs without its k-th element
DropAt(fs, k) == [j \in 1 .. (Len(fs) - 1) |-> IF j < k THEN fs[j] ELSE fs[j + 1]]

\* the block at free-list position k of c is the one a request of N bytes is cut
\* from, and c2, off, asz are the page, payload offset and reported size afterwards
SplitRule(c, c2, k, N, off, asz) ==
    \E fs \in {FreeList(c)} : \E cur \in {fs[k]} : \E S \in {bh_size(c, cur)} :
      /\ S >= N
      /\ \A j \in 1 .. (k - 1) : bh_size(c, fs[j]) < N
      /\ off = cur + BH_SIZE
      /\ BlockUsed(c2, off)
      /\ IF S - N >= BH_SIZE + HEAP_ALIGN
         THEN /\ bh_size(c2, cur) = N
              /\ asz = N
              /\ bh_size(c2, cur + BH_SIZE + N) = S - N - BH_SIZE
              /\ bh_flags(c2, cur + BH_SIZE + N) % 2 = 1
              /\ FreeList(c2) = [fs EXCEPT ![k] = cur + BH_SIZE + N]
         ELSE /\ bh_size(c2, cur) = S
              /\ asz = S
              /\ FreeList(c2) = DropAt(fs, k)

FitsOn(p, N) ==
    /\ pages[p].allocated /\ pages[p].is_heap
    /\ \E c \in {PreHeap(p)} : \E k \in 1 .. Len(FreeList(c)) :
         bh_flags(c, FreeList(c)[k]) % 2 = 1 /\ bh_size(c, FreeList(c)[k]) >= N
Fitting(N) == {p \in PageIdx : FitsOn(p, N)}
Lowest(S) == CHOOSE p \in S : \A q \in S : p <= q

\* C30 as stated: heap_alloc allocates a new page only when no heap page has a
\* fitting free block, and otherwise takes the block from the lowest-indexed
\* heap page that has one, leaving the number of allocated pages unchanged
C30_AsStated ==
    [][last'.op = "heap_alloc" =>
         \E fit \in {Fitting(RoundUp8(last'.val[1]))} :
           /\ Allocated' # Allocated => fit = {}
           /\ fit # {} => /\ last'.ret
                          /\ last'.idx = Lowest(fit)
                          /\ Allocated' = Allocated]_vars

\* page p is resident, or a buffer for it can be had: malloc has one left or a
\* resident page may be evicted
CanLoad(p) ==
    \/ pages[p].in_ram /\ pages[p].ram_addr
    \/ malloc_ok(M)
    \/ \E q \in PageIdx : Eligible(pages, q)
Loadable(S) == {p \in S : CanLoad(p)}

\* C30: heap_alloc allocates a new page only when no heap page that can be
\* brought into RAM has a free block of at least the aligned request, and
\* otherwise takes the block from the lowest-indexed such page, leaving the
\* set of allocated pages unchanged
C30_Packing ==
    [][last'.op = "heap_alloc" =>
         \E fit \in {Loadable(Fitting(RoundUp8(last'.val[1])))} :
           /\ Allocated' # Allocated => fit = {}
           /\ fit # {} => /\ last'.ret
                          /\ last'.idx = Lowest(fit)
                          /\ Allocated' = Allocated]_vars

\* a block of 8 bytes was taken from an existing heap page although a
\* higher-indexed heap page has a fitting free block as well
C30_Witness ==
    /\ last.op = "heap_alloc" /\ last.ret /\ last.val[1] = 5
    /\ ~HasEvent("heap_init")
    /\ \E q \in Fitting(HEAP_ALIGN) : q > last.idx

\* what v[i] reads: the element's first field in the page and at the offset
\* that operator[] computes, -1 when that is not inside an allocated page
ElemPlace(vr, i) ==
    IF vr.flat_mode THEN <<vr.flat_page, vr.flat_offset + i * V_SIZE>>
    ELSE <<IF (i \div vr.chunk_capacity) \in ChunkIdx
           THEN vr.chunks[i \div vr.chunk_capacity].page_idx ELSE -1,
           (i % vr.chunk_capacity) * V_SIZE>>
ReadAt(pl) ==
    IF valid_index(pl[1]) /\ pl[2] + V_SIZE <= VM_PAGE_SIZE /\ pages[pl[1]].allocated
    THEN Content(pl[1])[W(pl[2])][1] ELSE -1
VecAt(v, i) == ReadAt(ElemPlace(vec[v], i))
\* the vector as the sequence of what size() and v[0], v[1], ... give
Observed(v) == [i \in 1 .. vec[v].size |-> VecAt(v, i - 1)]

\* C21: after every push_back and pop_back, size() is the length of the
\* reference sequence and v[i] is its i-th element for every i < size(); so
\* after a pop_back followed by push_back(x), back() is x
C21_BehavesAsSequence ==
    last.op \in {"push_back", "pop_back"} =>
       /\ vec[1].size = Len(refs[1])
       /\ \A i \in 1 .. Len(refs[1]) : VecAt(1, i - 1) = refs[1][i]

\* C22: with reserve(n) calls put between the push_back calls, what size() and
\* v[i] give is what they give without the reserve calls
C22_ReserveTransparent ==
    last.op \in {"push_back", "reserve"} => Observed(1) = refs[1]

\* C23: a.swap(b) leaves in a what size() and v[i] gave for b before, and in b
\* what they gave for a
C23_SwapExchanges ==
    [][last'.op = "swap" =>
         /\ Observed(1)' = Observed(2)
         /\ Observed(2)' = Observed(1)]_vars

\* the sum of the payload sizes of the blocks at the offsets of sequence fs
RECURSIVE SumSizes(_, _)
SumSizes(c, fs) ==
    IF fs = <<>> THEN 0 ELSE bh_size(c, Head(fs)) + SumSizes(c, Tail(fs))

\* C31: in every reachable state the total_free of each heap page is the sum of
\* the payload sizes of the blocks on the page's free list
C31_FreeAccounting ==
    \A p \in HeapPages : hh_total_free(Content(p)) = SumSizes(Content(p), FreeList(Content(p)))

\* a heap page with a block handed out whole, a block handed out by a split
\* and a freed block back on its free list
C31_Witness ==
    /\ last.op = "heap_free" /\ last.ret
    /\ \E p \in HeapPages : Len(FreeList(Content(p))) >= 2
    /\ \E b \in live : b.alloc_size > HEAP_ALIGN

\* a heap_alloc step that directly follows a successful heap_free and asks for
\* exactly the size of the block that was freed
AllocAfterFree ==
    /\ last.op = "heap_free" /\ last.ret
    /\ last'.op = "heap_alloc"
    /\ RoundUp8(last'.val[1]) = bh_size(Content(last.idx), last.off - BH_SIZE)
\* heap_free leaves the freed block at the head of its page's free list
FreedAtHead ==
    (last'.op = "heap_free" /\ last'.ret) =>
        /\ FreeList(ContentNext(last'.idx)) # <<>>
        /\ Head(FreeList(ContentNext(last'.idx))) = last'.off - BH_SIZE
LowerFit(N, p) == {q \in Fitting(N) : q < p}

\* C32 as stated: the heap_alloc of the same size right after a heap_free
\* returns the freed block's (page, offset)
C32_AsStated ==
    [][/\ FreedAtHead
       /\ AllocAfterFree =>
            last'.ret /\ last'.idx = last.idx /\ last'.off = last.off]_vars

\* C32: heap_free puts the freed block at the head of its page's free list, and
\* a heap_alloc of exactly the same size issued immediately after the free
\* returns the freed block's (page, offset) when no heap page of lower index
\* has a fitting free block, and a block of the lowest such page otherwise
C32_FreedReusedFirst ==
    [][/\ FreedAtHead
       /\ AllocAfterFree =>
            /\ last'.ret
            /\ IF LowerFit(RoundUp8(last'.val[1]), last.idx) = {}
               THEN last'.idx = last.idx /\ last'.off = last.off
               ELSE last'.idx = Lowest(LowerFit(RoundUp8(last'.val[1]), last.idx))]_vars

\* a block of 8 bytes has just been freed onto a free list that held a block
\* already, and the request of 5 bytes that may follow gets it back
C32_Witness ==
    /\ last.op = "heap_free" /\ last.ret /\ Running
    /\ Len(FreeList(Content(last.idx))) >= 2
    /\ bh_size(Content(last.idx), last.off - BH_SIZE) = RoundUp8(5)
    /\ \E r \in {heap_alloc(M, 5)} : r.ret /\ r.page = last.idx /\ r.off = last.off

\* the blocks, used and free, that tile page buffer c
Blocks(c) == BlockChain(c, HH_SIZE, NWords)
\* the heap pages whose header and blocks have been written
BuiltHeaps == {p \in HeapPages : ~pages[p].zero_filled}
\* the largest payload on the free list of c, 0 when the list is empty
LargestFree(c) ==
    IF FreeList(c) = <<>> THEN 0
    ELSE CHOOSE S \in {bh_size(c, FreeList(c)[k]) : k \in 1 .. Len(FreeList(c))} :
           \A k \in 1 .. Len(FreeList(c)) : bh_size(c, FreeList(c)[k]) <= S
\* a heap_alloc / heap_free step merges no blocks: every block stays a block,
\* and heap_free leaves every size as it was
NoMerge ==
    (last'.op \in {"heap_alloc", "heap_free"}) =>
        \A p \in BuiltHeaps :
          /\ Cardinality(Blocks(ContentNext(p))) >= Cardinality(Blocks(Content(p)))
          /\ last'.op = "heap_free" =>
               /\ Blocks(ContentNext(p)) = Blocks(Content(p))
               /\ \A off \in Blocks(Content(p)) :
                    bh_size(ContentNext(p), off) = bh_size(Content(p), off)

\* C33: across heap_alloc / heap_free calls the number of blocks of a heap page
\* never decreases and heap_free changes no block's size, so a request larger
\* than every single free block of a page is never served from that page
C33_NoCoalescing ==
    [][/\ NoMerge
       /\ (last'.op = "heap_alloc" /\ last'.ret) =>
            last'.val[1] <= LargestFree(PreHeap(last'.idx))]_vars

\* the same with the request taken as the need heap_alloc computes from it
C33_NoCoalescingNeed ==
    [][/\ NoMerge
       /\ (last'.op = "heap_alloc" /\ last'.ret) =>
            align_up(last'.val[1]) <= LargestFree(PreHeap(last'.idx))]_vars

\* C34: a heap_alloc that returns failure leaves the set of allocated pages and
\* the set of heap pages as they were before the call
C34_FailedAllocKeepsPages ==
    [][(last'.op = "heap_alloc" /\ ~last'.ret) =>
         /\ Allocated' = Allocated
         /\ HeapPages' = HeapPages]_vars

\* C35: for an Unbound handle p, p[0] designates the same storage as *p: after
\* p[0] the handle p refers to the element that was indexed, and the call has
\* allocated no heap block that no handle refers to
C35_IndexUnbound ==
    [][(/\ last'.op \in {"index_write", "index_read"} /\ last'.ret
        /\ last'.val[2] = 0
        /\ hnd[last'.val[1]].page_idx = -1) =>
         /\ hnd'[last'.val[1]] = [page_idx |-> last'.idx, offset |-> last'.off]
         /\ \A b \in live' \ live : Owned(b)']_vars
\* on a bound handle p[0] is the element *p refers to, and nothing is allocated
IndexBoundSame ==
    [][(/\ last'.op \in {"index_write", "index_read"} /\ last'.ret
        /\ last'.val[2] = 0
        /\ hnd[last'.val[1]].page_idx # -1) =>
         /\ hnd[last'.val[1]] = [page_idx |-> last'.idx, offset |-> last'.off]
         /\ UNCHANGED <<hnd, live>>]_vars

\* the pages and heap blocks that are still claimed from the manager: allocated
\* pages that are not heap pages, and used blocks of heap pages
Claimed ==
    {<<p, 0>> : p \in {q \in Allocated : ~pages[q].is_heap}} \cup UsedSet

\* C36: after clear() (or the destructor, which is clear()) of a vector that is
\* the manager's only client, no heap block is in use and no page other than
\* the heap's own is allocated
C36_ClearReleasesAll ==
    (last.op = "clear" /\ last.ret) => Claimed = {}

\* what heap_alloc and heap_free go by in page buffer c: the free list, the
\* free-byte total and every block's header
HeapView(c) ==
    <<FreeList(c), hh_total_free(c),
      [h \in Blocks(c) |-> <<bh_size(c, h), bh_flags(c, h), bh_next_free(c, h)>>]>>

\* C37: heap_free on a block that is already free leaves the free list,
\* total_free and every block header of every heap page unchanged, and the
\* live blocks keep their payload
C37_DoubleFreeHarmless ==
    [][last'.op = "double_free" =>
         /\ ~last'.ret
         /\ HeapPages' = HeapPages
         /\ \A p \in BuiltHeaps : HeapView(ContentNext(p)) = HeapView(Content(p))
         /\ \A b \in live : PayloadWord(ContentNext(b.page), b.off, 0)
                              = PayloadWord(Content(b.page), b.off, 0)]_vars

\* a free block has been freed again while the other block of its page is
\* live, and the page had to be swapped in for the call
C37_Witness ==
    /\ last.op = "double_free"
    /\ HasEvent("store_read")
    /\ FreeList(Content(last.idx)) = <<last.off - BH_SIZE>>
    /\ \E b \in live : b.page = last.idx /\ b.off # last.off

\* the allocated pages that sit in RAM unmodified
CleanResident == {p \in Allocated : pages[p].in_ram /\ ~pages[p].dirty}

\* C38: for every allocated page that is resident and not dirty, the RAM
\* content equals the content of its backing-store region
C38_CleanMirrorsStore ==
    \A p \in CleanResident : ram[p] = store[pages[p].swap_offset]

\* the free list of page buffer c ends at a zero link, repeats no block, visits
\* only headers of the blocks that tile the page, and holds exactly the blocks
\* whose free flag is set
WellFormed(c) ==
    \E fs \in {FreeList(c)} :
      /\ fs = <<>> => hh_first_free(c) = 0
      /\ fs # <<>> => bh_next_free(c, fs[Len(fs)]) = 0
      /\ \A j, k \in 1 .. Len(fs) : j # k => fs[j] # fs[k]
      /\ {fs[k] : k \in 1 .. Len(fs)} = {h \in Blocks(c) : bh_flags(c, h) % 2 = 1}

\* C39: in every reachable state each heap page's free list, walked from
\* first_free through next_free, is finite and acyclic, visits only block headers
\* inside the page, and contains exactly the blocks whose free flag is set
C39_FreeListWellFormed ==
    \A p \in BuiltHeaps : WellFormed(Content(p))

\* the last call freed the second block of a heap page, which now has both its
\* blocks on the free list, while another heap page has a block in use
C39_Witness ==
    /\ last.op = "heap_free" /\ last.ret
    /\ Len(FreeList(Content(last.idx))) = 2
    /\ Head(FreeList(Content(last.idx))) = last.off - BH_SIZE
    /\ \E b \in live : b.page # last.idx /\ Len(FreeList(Content(b.page))) = 1

\* the descriptor of page p is consistent
Consistent(p) ==
    /\ pages[p].ram_addr <=> pages[p].in_ram
    /\ ~pages[p].allocated =>
         /\ ~pages[p].in_ram /\ ~pages[p].dirty /\ ~pages[p].is_heap
         /\ pages[p].zero_filled

\* C40: in every state after begin(), a page has a RAM buffer exactly when
\* in_ram is true, and a page that is not allocated is not resident, not dirty,
\* not a heap page and is marked zero_filled, also after a failed allocation or
\* a failed swap-in
C40_DescriptorConsistent ==
    started => \A p \in PageIdx : Consistent(p)

\* an allocation or a swap-in has just failed for want of a buffer, while one
\* page is resident and another slot, used before, is free again
C40_Witness ==
    /\ started
    /\ last.op \in {"alloc_page", "swap_in"} /\ ~last.ret
    /\ HasEvent("malloc")
    /\ \E p \in PageIdx : pages[p].allocated /\ pages[p].in_ram
    /\ \E p \in PageIdx : ~pages[p].allocated /\ pages[p].last_access > 0
====
